---- MODULE Spec2Model ----
(***************************************************************************)
(* ProChef recipe import pipeline (RecipeImportService.importFromUrl):     *)
(* URL validation, the axios GET, the JSON-LD extractor, the heuristic     *)
(* HTML extractor and cleanRecipeData, with the catch block that maps the  *)
(* caught error to the message thrown to the caller.                       *)
(*                                                                         *)
(* JavaScript strings are tuples of one-character strings, JavaScript      *)
(* values are records tagged by their typeof in field t.                   *)
(***************************************************************************)
EXTENDS Integers, Sequences, FiniteSets, TLC

VARIABLES
  pc,        \* position inside importFromUrl
  url,       \* the url argument
  remote,    \* what the remote server does for this url
  gets,      \* number of axios.get calls issued
  response,  \* response.data once the GET resolved
  error,     \* the error caught by the catch block
  recipe,    \* the extraction candidate
  outcome,   \* what importFromUrl returned or threw
  trace,     \* the pipeline stages run so far, in order
  service,   \* the fields of the shared RecipeImportService instance
  self,      \* which importFromUrl call the variables above belong to
  peer,      \* the other in-flight importFromUrl call, suspended
  route,     \* the POST /recipes/import request being handled
  db         \* the db.createRecipe calls made so far

\* the local state of the running importFromUrl call
call == <<pc, url, remote, gets, response, error, recipe, outcome, trace>>

\* what lies outside the running call
outside == <<service, self, peer, route, db>>

vars == <<pc, url, remote, gets, response, error, recipe, outcome, trace,
          service, self, peer, route, db>>

(***************************************************************************)
(* Bounds                                                                  *)
(***************************************************************************)
MaxItems == 2      \* longest recipeIngredient / recipeInstructions array
MaxBlocks == 2     \* most ld+json script blocks on a page

(***************************************************************************)
(* JavaScript values                                                       *)
(***************************************************************************)
Undefined == [t |-> "undefined"]
Null == [t |-> "null"]
Str(s) == [t |-> "string", v |-> s]
Num(n) == [t |-> "number", n |-> n]
Arr(a) == [t |-> "array", v |-> a]
Obj(text, name) == [t |-> "object", text |-> text, name |-> name]

IsString(x) == x.t = "string"
IsArray(x) == x.t = "array"

\* JavaScript truthiness of a value
Truthy(x) ==
  CASE x.t = "undefined" -> FALSE
    [] x.t = "null" -> FALSE
    [] x.t = "string" -> x.v # <<>>
    [] x.t = "number" -> x.n # 0
    [] OTHER -> TRUE

\* a || b
Or(a, b) == IF Truthy(a) THEN a ELSE b

(***************************************************************************)
(* String helpers                                                          *)
(***************************************************************************)
Whitespace == {" ", "\n", "\t"}

IsWs(c) == c \in Whitespace

\* String.prototype.trim
RECURSIVE TrimLeft(_)
TrimLeft(s) ==
  IF s = <<>> THEN <<>>
  ELSE IF IsWs(Head(s)) THEN TrimLeft(Tail(s)) ELSE s

RECURSIVE TrimRight(_)
TrimRight(s) ==
  IF s = <<>> THEN <<>>
  ELSE IF IsWs(s[Len(s)]) THEN TrimRight(SubSeq(s, 1, Len(s) - 1)) ELSE s

Trim(s) == TrimRight(TrimLeft(s))

\* s.replace(/\s+/g, ' ')
RECURSIVE CollapseWs(_)
CollapseWs(s) ==
  IF s = <<>> THEN <<>>
  ELSE IF IsWs(Head(s))
       THEN <<" ">> \o CollapseWs(TrimLeft(s))
       ELSE <<Head(s)>> \o CollapseWs(Tail(s))

\* length of the whitespace run at the start of s
RECURSIVE WsRun(_)
WsRun(s) == IF s = <<>> \/ ~IsWs(Head(s)) THEN 0 ELSE 1 + WsRun(Tail(s))

\* position of the last "\n" among the first n characters of s, 0 if none
LastNewline(s, n) ==
  LET ps == {i \in 1..n : s[i] = "\n"}
  IN IF ps = {} THEN 0 ELSE CHOOSE i \in ps : \A j \in ps : j <= i

\* s.replace(/\n\s*\n/g, '\n')
RECURSIVE CollapseBlankLines(_)
CollapseBlankLines(s) ==
  IF s = <<>> THEN <<>>
  ELSE IF Head(s) = "\n" /\ LastNewline(Tail(s), WsRun(Tail(s))) > 0
       THEN <<"\n">> \o
            CollapseBlankLines(SubSeq(s, 2 + LastNewline(Tail(s), WsRun(Tail(s))), Len(s)))
       ELSE <<Head(s)>> \o CollapseBlankLines(Tail(s))

\* a.join(sep) for an array of strings
RECURSIVE Join(_, _)
Join(a, sep) ==
  IF a = <<>> THEN <<>>
  ELSE IF Len(a) = 1 THEN a[1]
  ELSE a[1] \o sep \o Join(Tail(a), sep)

\* s.split('\n')
RECURSIVE Lines(_)
Lines(s) ==
  IF \A i \in 1..Len(s) : s[i] # "\n" THEN <<s>>
  ELSE LET k == CHOOSE i \in 1..Len(s) : s[i] = "\n" /\ \A j \in 1..(i - 1) : s[j] # "\n"
       IN <<SubSeq(s, 1, k - 1)>> \o Lines(SubSeq(s, k + 1, Len(s)))

\* decimal digits of a small step number, as `${index + 1}` prints it
Digit(n) == <<"0", "1", "2", "3", "4", "5", "6", "7", "8", "9">>[n + 1]

RECURSIVE ToDigits(_)
ToDigits(n) == IF n < 10 THEN <<Digit(n)>> ELSE ToDigits(n \div 10) \o <<Digit(n % 10)>>

(***************************************************************************)
(* Errors: code is error.code ("" when the error has none), status is      *)
(* error.response.status (0 when the error has no response), message is    *)
(* error.message as a text with the number printed inside it.              *)
(***************************************************************************)
Err(code, status, text, n) ==
  [code |-> code, status |-> status, message |-> [text |-> text, n |-> n]]

NoError == Err("", 0, "", 0)

TypeErrorReplace == Err("", 0, "text.replace is not a function", 0)
InvalidUrlError == Err("ERR_INVALID_URL", 0, "Invalid URL", 0)
ProtocolError == Err("", 0, "Invalid URL protocol. Only HTTP and HTTPS are supported.", 0)
TitleError == Err("", 0, "Could not extract recipe title from the page", 0)

(***************************************************************************)
(* RecipeImportService: constructor                                        *)
(***************************************************************************)
timeout == 30000
maxSize == 1048576

\* element kinds matched by this.selectors.title
titleSelector ==
  {"h1.recipe-title", "h1.entry-title", ".recipe-header h1", ".recipe-title", "h1",
   "meta[property=og:title]"}

\* element kinds matched by this.selectors.description
descriptionSelector ==
  {".recipe-description", ".recipe-summary", ".entry-summary", "meta[name=description]",
   "meta[property=og:description]"}

\* element kinds matched by this.selectors.ingredients
ingredientsSelector ==
  {".recipe-ingredient", ".ingredients li", ".recipe-ingredients li",
   "[itemprop=recipeIngredient]", ".ingredient"}

\* element kinds matched by this.selectors.instructions
instructionsSelector ==
  {".recipe-instruction", ".instructions li", ".recipe-instructions li",
   ".recipe-method li", "[itemprop=recipeInstructions]", ".instruction"}

\* element kinds matched by this.selectors.cookingTime
cookingTimeSelector == {"[itemprop=cookTime]", ".recipe-cook-time", ".cook-time"}

\* element kinds matched by this.selectors.prepTime
prepTimeSelector == {"[itemprop=prepTime]", ".recipe-prep-time", ".prep-time"}

\* element kinds matched by this.selectors.servings
servingsSelector == {"[itemprop=recipeYield]", ".recipe-servings", ".servings", ".yield"}

\* element kinds matched by this.selectors.image
imageSelector ==
  {"meta[property=og:image]", ".recipe-image img", ".recipe-photo img", "img.recipe"}

\* the instance once the constructor has run
Constructed ==
  [timeout |-> timeout,
   maxSize |-> maxSize,
   selectors |-> [title |-> titleSelector,
                  description |-> descriptionSelector,
                  ingredients |-> ingredientsSelector,
                  instructions |-> instructionsSelector,
                  cookingTime |-> cookingTimeSelector,
                  prepTime |-> prepTimeSelector,
                  servings |-> servingsSelector,
                  image |-> imageSelector]]

(***************************************************************************)
(* cleanText                                                               *)
(***************************************************************************)
\* text.replace is not a function: text is truthy and not a string
cleanTextThrows(text) == Truthy(text) /\ ~IsString(text)

cleanText(text) ==
  IF ~Truthy(text) THEN <<>>
  ELSE Trim(CollapseBlankLines(CollapseWs(text.v)))

(***************************************************************************)
(* Digits, letter case and substrings                                      *)
(***************************************************************************)
Digits == {"0", "1", "2", "3", "4", "5", "6", "7", "8", "9"}

IsDigit(c) == c \in Digits

\* length of the digit run at the start of s
RECURSIVE DigitRun(_)
DigitRun(s) == IF s = <<>> \/ ~IsDigit(Head(s)) THEN 0 ELSE 1 + DigitRun(Tail(s))

DigitVal(c) == CHOOSE n \in 0..9 : Digit(n) = c

\* parseInt of a run of decimal digits
RECURSIVE ParseDigits(_)
ParseDigits(ds) ==
  IF ds = <<>> THEN 0
  ELSE 10 * ParseDigits(SubSeq(ds, 1, Len(ds) - 1)) + DigitVal(ds[Len(ds)])

UpperLetters == <<"A", "B", "C", "D", "E", "F", "G", "H", "I", "J", "K", "L", "M", "N", "O", "P", "Q", "R", "S", "T", "U", "V", "W", "X", "Y", "Z">>
LowerLetters == <<"a", "b", "c", "d", "e", "f", "g", "h", "i", "j", "k", "l", "m", "n", "o", "p", "q", "r", "s", "t", "u", "v", "w", "x", "y", "z">>

\* String.prototype.toLowerCase, one character
LowerChar(c) ==
  IF \E i \in 1..26 : UpperLetters[i] = c
  THEN LowerLetters[CHOOSE i \in 1..26 : UpperLetters[i] = c]
  ELSE c

ToLowerCase(s) == [i \in 1..Len(s) |-> LowerChar(s[i])]

\* s.startsWith(prefix)
StartsWith(s, prefix) ==
  Len(s) >= Len(prefix) /\ SubSeq(s, 1, Len(prefix)) = prefix

\* s.includes(sub)
Includes(s, sub) ==
  \E i \in 1..(Len(s) - Len(sub) + 1) : SubSeq(s, i, i + Len(sub) - 1) = sub

\* the text after the first n characters of s
Drop(s, n) == SubSeq(s, n + 1, Len(s))

\* position of the first digit of s, 0 when s has none
FirstDigit(s) ==
  LET ps == {i \in 1..Len(s) : IsDigit(s[i])}
  IN IF ps = {} THEN 0 ELSE CHOOSE i \in ps : \A j \in ps : i <= j

\* s.match(/(\d+)/): the first run of digits, <<>> when there is no match
FirstNumber(s) ==
  IF FirstDigit(s) = 0 THEN <<>>
  ELSE SubSeq(s, FirstDigit(s), FirstDigit(s) + DigitRun(Drop(s, FirstDigit(s) - 1)) - 1)

(***************************************************************************)
(* parseTime                                                               *)
(***************************************************************************)
\* timeString.match is not a function: timeString is truthy and not a string
parseTimeThrows(timeString) == Truthy(timeString) /\ ~IsString(timeString)

\* position of the first "PT" in s, 0 when /PT(?:(\d+)H)?(?:(\d+)M)?/ does not match
IsoStart(s) ==
  LET ps == {i \in 1..(Len(s) - 1) : s[i] = "P" /\ s[i + 1] = "T"}
  IN IF ps = {} THEN 0 ELSE CHOOSE i \in ps : \A j \in ps : i <= j

\* (?:(\d+)X)? at the start of s: the digits captured, <<>> when the group is skipped
IsoGroup(s, letter) ==
  IF DigitRun(s) >= 1 /\ Len(s) > DigitRun(s) /\ s[DigitRun(s) + 1] = letter
  THEN SubSeq(s, 1, DigitRun(s))
  ELSE <<>>

\* the text left after (?:(\d+)X)?
AfterIsoGroup(s, letter) ==
  IF IsoGroup(s, letter) = <<>> THEN s ELSE Drop(s, DigitRun(s) + 1)

\* hours * 60 + minutes, with parseInt(group || '0')
IsoMinutes(s) ==
  LET after == Drop(s, IsoStart(s) + 1)
      hours == IsoGroup(after, "H")
      minutes == IsoGroup(AfterIsoGroup(after, "H"), "M")
  IN ParseDigits(hours) * 60 + ParseDigits(minutes)

\* the alternation (hour|hr|h|minute|min|m), tried in that order
TimeUnits == <<<<"h", "o", "u", "r">>, <<"h", "r">>, <<"h">>, <<"m", "i", "n", "u", "t", "e">>, <<"m", "i", "n">>, <<"m">>>>

\* the unit matched at the start of s ignoring case, <<>> when none matches
UnitAt(s) ==
  LET us == {i \in 1..Len(TimeUnits) : StartsWith(ToLowerCase(s), TimeUnits[i])}
  IN IF us = {} THEN <<>> ELSE TimeUnits[CHOOSE i \in us : \A j \in us : i <= j]

\* timeString.match(/(\d+)\s*(hour|hr|h|minute|min|m)/gi): the matches, left
\* to right, each as its number and unit
RECURSIVE TimeMatches(_)
TimeMatches(s) ==
  IF s = <<>> THEN <<>>
  ELSE IF ~IsDigit(Head(s)) THEN TimeMatches(Tail(s))
  ELSE LET d == DigitRun(s)
           afterWs == Drop(Drop(s, d), WsRun(Drop(s, d)))
           unit == UnitAt(afterWs)
       IN IF unit = <<>> THEN TimeMatches(Tail(s))
          ELSE <<[num |-> SubSeq(s, 1, d), unit |-> unit]>> \o
               TimeMatches(Drop(afterWs, Len(unit)))

\* the forEach that adds value * 60 for hour units and value otherwise
RECURSIVE TotalMinutes(_)
TotalMinutes(ms) ==
  IF ms = <<>> THEN 0
  ELSE (IF StartsWith(ToLowerCase(Head(ms).unit), <<"h">>)
        THEN ParseDigits(Head(ms).num) * 60
        ELSE ParseDigits(Head(ms).num)) + TotalMinutes(Tail(ms))

parseTime(timeString) ==
  IF ~Truthy(timeString) THEN Null
  ELSE IF IsoStart(timeString.v) # 0 THEN Num(IsoMinutes(timeString.v))
  ELSE IF TimeMatches(timeString.v) # <<>> THEN Num(TotalMinutes(TimeMatches(timeString.v)))
  ELSE IF FirstNumber(timeString.v) # <<>> THEN Num(ParseDigits(FirstNumber(timeString.v)))
  ELSE Null

(***************************************************************************)
(* parseServings                                                           *)
(***************************************************************************)
ObjectObject == <<"[", "o", "b", "j", "e", "c", "t", " ", "O", "b", "j", "e", "c", "t", "]">>

\* servingsString.toString()
RECURSIVE ToStringOf(_)
ToStringOf(x) ==
  CASE x.t = "string" -> x.v
    [] x.t = "number" -> IF x.n < 0 THEN <<"-">> \o ToDigits(0 - x.n) ELSE ToDigits(x.n)
    [] x.t = "array" ->
         Join([i \in 1..Len(x.v) |->
                 IF x.v[i].t \in {"null", "undefined"} THEN <<>> ELSE ToStringOf(x.v[i])],
              <<",">>)
    [] OTHER -> ObjectObject

parseServings(servingsString) ==
  IF ~Truthy(servingsString) THEN Null
  ELSE IF FirstNumber(ToStringOf(servingsString)) # <<>>
       THEN Num(ParseDigits(FirstNumber(ToStringOf(servingsString))))
       ELSE Null

(***************************************************************************)
(* mapDifficulty                                                           *)
(***************************************************************************)
Easy == <<"e", "a", "s", "y">>
Medium == <<"m", "e", "d", "i", "u", "m">>
Hard == <<"h", "a", "r", "d">>

\* difficulty.toLowerCase is not a function: difficulty is truthy and not a string
mapDifficultyThrows(difficulty) == Truthy(difficulty) /\ ~IsString(difficulty)

\* variant: the keywords are matched without toLowerCase
mapDifficultyCaseSensitive(difficulty) ==
  IF ~Truthy(difficulty) THEN Str(Medium)
  ELSE LET diffLower == difficulty.v
       IN IF Includes(diffLower, Easy) \/ Includes(diffLower, <<"b", "e", "g", "i", "n", "n", "e", "r">>) THEN Str(Easy)
          ELSE IF Includes(diffLower, Hard) \/ Includes(diffLower, <<"d", "i", "f", "f", "i", "c", "u", "l", "t">>)
                  \/ Includes(diffLower, <<"e", "x", "p", "e", "r", "t">>)
               THEN Str(Hard)
          ELSE Str(Medium)

mapDifficulty(difficulty) ==
  IF ~Truthy(difficulty) THEN Str(Medium)
  ELSE LET diffLower == ToLowerCase(difficulty.v)
       IN IF Includes(diffLower, Easy) \/ Includes(diffLower, <<"b", "e", "g", "i", "n", "n", "e", "r">>) THEN Str(Easy)
          ELSE IF Includes(diffLower, Hard) \/ Includes(diffLower, <<"d", "i", "f", "f", "i", "c", "u", "l", "t">>)
                  \/ Includes(diffLower, <<"e", "x", "p", "e", "r", "t">>)
               THEN Str(Hard)
          ELSE Str(Medium)

(***************************************************************************)
(* extractImageUrl                                                         *)
(***************************************************************************)
ImageObject(u) == [t |-> "object", url |-> u]

extractImageUrl(image) ==
  IF ~Truthy(image) THEN Null
  ELSE IF IsString(image) THEN image
  ELSE IF IsArray(image) THEN (IF image.v = <<>> THEN Undefined ELSE image.v[1])
  ELSE IF image.t = "object" /\ Truthy(image.url) THEN image.url
  ELSE Null

(***************************************************************************)
(* JSON-LD extractor                                                       *)
(***************************************************************************)
\* reading a property of null or undefined raises a TypeError
PropertyReadThrows(x) == x.t \in {"null", "undefined"}

\* x.text || x.name || '' for a non-string array entry
TextOrName(x) ==
  IF x.t = "object" THEN Or(Or(x.text, x.name), Str(<<>>)) ELSE Str(<<>>)

\* Array.prototype.join prints null and undefined entries as ''
JoinText(x) == IF IsString(x) THEN x.v ELSE <<>>

extractIngredientsThrows(ingredients) ==
  IsArray(ingredients) /\
  \E i \in 1..Len(ingredients.v) : PropertyReadThrows(ingredients.v[i])

extractIngredients(ingredients) ==
  IF IsArray(ingredients)
  THEN Str(Join([i \in 1..Len(ingredients.v) |->
                  JoinText(IF IsString(ingredients.v[i]) THEN ingredients.v[i]
                           ELSE TextOrName(ingredients.v[i]))], <<"\n">>))
  ELSE IF IsString(ingredients) THEN ingredients ELSE Str(<<>>)

\* the text of one recipeInstructions entry
StepText(inst) ==
  IF IsString(inst) THEN inst.v
  ELSE IF inst.t = "object" /\ Truthy(inst.text) THEN JoinText(inst.text)
  ELSE IF inst.t = "object" /\ Truthy(inst.name) THEN JoinText(inst.name)
  ELSE <<>>

\* text ? `${index + 1}. ${text}` : ''
NumberedStep(inst, index) ==
  IF StepText(inst) # <<>> THEN ToDigits(index + 1) \o <<".", " ">> \o StepText(inst)
  ELSE <<>>

\* a.filter(Boolean) for an array of strings
RECURSIVE FilterNonEmpty(_)
FilterNonEmpty(a) ==
  IF a = <<>> THEN <<>>
  ELSE IF Head(a) # <<>> THEN <<Head(a)>> \o FilterNonEmpty(Tail(a))
  ELSE FilterNonEmpty(Tail(a))

extractInstructionsThrows(instructions) ==
  IsArray(instructions) /\
  \E i \in 1..Len(instructions.v) : PropertyReadThrows(instructions.v[i])

extractInstructions(instructions) ==
  IF IsArray(instructions)
  THEN Str(Join(FilterNonEmpty([i \in 1..Len(instructions.v) |->
                                 NumberedStep(instructions.v[i], i - 1)]), <<"\n">>))
  ELSE IF IsString(instructions) THEN instructions ELSE Str(<<>>)

\* variant: only the plain string 'Recipe' is accepted as @type
IsRecipeTypeStrict(data) == data.type = "Recipe"

\* data['@type'] === 'Recipe' || (Array.isArray(data['@type']) && data['@type'].includes('Recipe'))
IsRecipeType(data) == data.type \in {"Recipe", "[...,Recipe]"}

\* the object literal returned for a Recipe-typed data object
JsonLdCandidate(data) ==
  [title |-> data.name,
   description |-> data.description,
   ingredients |-> extractIngredients(Or(data.recipeIngredient, Arr(<<>>))),
   instructions |-> extractInstructions(Or(data.recipeInstructions, Arr(<<>>))),
   cookingTime |-> parseTime(data.cookTime),
   prepTime |-> parseTime(data.prepTime),
   servings |-> parseServings(data.recipeYield),
   difficulty |-> mapDifficulty(data.difficulty),
   imageUrl |-> extractImageUrl(data.image)]

\* building the object literal raises inside the try
JsonLdCandidateThrows(data) ==
  \/ extractIngredientsThrows(Or(data.recipeIngredient, Arr(<<>>)))
  \/ extractInstructionsThrows(Or(data.recipeInstructions, Arr(<<>>)))
  \/ parseTimeThrows(data.cookTime)
  \/ parseTimeThrows(data.prepTime)
  \/ mapDifficultyThrows(data.difficulty)

\* One script block: the inner for loop under the try. Result is
\* [hit |-> TRUE, recipe |-> ...] on return, [hit |-> FALSE] when the block
\* is exhausted or an exception sends the loop to the next block.
RECURSIVE ScanBlock(_)
ScanBlock(recipes) ==
  IF recipes = <<>> THEN [hit |-> FALSE]
  ELSE LET data == Head(recipes)
       IN IF PropertyReadThrows(data) THEN [hit |-> FALSE]
          ELSE IF IsRecipeType(data)
               THEN IF JsonLdCandidateThrows(data) THEN [hit |-> FALSE]
                    ELSE [hit |-> TRUE, recipe |-> JsonLdCandidate(data)]
               ELSE ScanBlock(Tail(recipes))

\* JSON.parse of the block text, then Array.isArray(jsonData) ? jsonData : [jsonData]
BlockRecipes(block) == IF block.json.t = "array" THEN block.json.v ELSE <<block.json>>

\* variant: a block that fails to parse ends the scan
RECURSIVE ScanScriptsStopsAtMalformed(_)
ScanScriptsStopsAtMalformed(scripts) ==
  IF scripts = <<>> THEN Null
  ELSE IF ~Head(scripts).parses THEN Null
  ELSE LET r == ScanBlock(BlockRecipes(Head(scripts)))
       IN IF r.hit THEN r.recipe ELSE ScanScriptsStopsAtMalformed(Tail(scripts))

RECURSIVE ScanScripts(_)
ScanScripts(scripts) ==
  IF scripts = <<>> THEN Null
  ELSE IF ~Head(scripts).parses THEN ScanScripts(Tail(scripts))
  ELSE LET r == ScanBlock(BlockRecipes(Head(scripts)))
       IN IF r.hit THEN r.recipe ELSE ScanScripts(Tail(scripts))

extractFromJsonLd(page) == ScanScripts(page.scripts)

(***************************************************************************)
(* Heuristic extractor                                                     *)
(***************************************************************************)
\* $(selector): the matching elements in document order
Select(dom, selector) == SelectSeq(dom, LAMBDA el : el.kind \in selector)

\* getTextContent
getTextContent(dom, selector) ==
  LET els == Select(dom, selector)
  IN IF els # <<>> THEN Trim(els[1].text) ELSE <<>>

\* getAttrContent: the attribute of the first match (undefined when the
\* element lacks it), '' when nothing matches
getAttrContent(dom, selector, attr) ==
  LET els == Select(dom, selector)
  IN IF els # <<>> THEN (IF attr = "content" THEN els[1].content ELSE els[1].src)
     ELSE Str(<<>>)

\* texts.push(text) when text is non-empty and not yet included
RECURSIVE PushTexts(_, _)
PushTexts(els, texts) ==
  IF els = <<>> THEN texts
  ELSE LET text == Trim(Head(els).text)
       IN IF text # <<>> /\ \A i \in 1..Len(texts) : texts[i] # text
          THEN PushTexts(Tail(els), Append(texts, text))
          ELSE PushTexts(Tail(els), texts)

extractMultipleTexts(dom, selector) == PushTexts(Select(dom, selector), <<>>)

\* $('title').text(): the text of every title element, concatenated
RECURSIVE ConcatTexts(_)
ConcatTexts(els) == IF els = <<>> THEN <<>> ELSE Head(els).text \o ConcatTexts(Tail(els))

\* does /\s*\|\s*.*$/ match with its "|" at position k: after the bar and the
\* whitespace that follows it no line break may remain ("." stops at "\n")
BarMatches(s, k) ==
  /\ s[k] = "|"
  /\ LET rest == SubSeq(s, k + 1, Len(s))
         tail == SubSeq(rest, WsRun(rest) + 1, Len(rest))
     IN \A i \in 1..Len(tail) : tail[i] # "\n"

\* s.replace(/\s*\|\s*.*$/, '')
StripSiteSuffix(s) ==
  LET ks == {k \in 1..Len(s) : BarMatches(s, k)}
  IN IF ks = {} THEN s
     ELSE LET k == CHOOSE i \in ks : \A j \in ks : i <= j
          IN TrimRight(SubSeq(s, 1, k - 1))

\* the returned object has no difficulty property: reading it gives undefined
extractFromHtml(page) ==
  [title |-> Or(Str(getTextContent(page.dom, service.selectors.title)),
                Str(Trim(StripSiteSuffix(ConcatTexts(Select(page.dom, {"title"})))))),
   description |-> Or(Or(Str(getTextContent(page.dom, service.selectors.description)),
                         getAttrContent(page.dom, {"meta[name=description]"}, "content")),
                      getAttrContent(page.dom, {"meta[property=og:description]"}, "content")),
   ingredients |-> Str(Join(extractMultipleTexts(page.dom, service.selectors.ingredients), <<"\n">>)),
   instructions |-> Str(Join(extractMultipleTexts(page.dom, service.selectors.instructions), <<"\n">>)),
   cookingTime |-> parseTime(Str(getTextContent(page.dom, service.selectors.cookingTime))),
   prepTime |-> parseTime(Str(getTextContent(page.dom, service.selectors.prepTime))),
   servings |-> parseServings(Str(getTextContent(page.dom, service.selectors.servings))),
   difficulty |-> Undefined,
   imageUrl |-> Or(getAttrContent(page.dom, service.selectors.image, "content"),
                   getAttrContent(page.dom, service.selectors.image, "src"))]

(***************************************************************************)
(* cleanRecipeData                                                         *)
(***************************************************************************)
ImportedRecipe ==
  <<"I", "m", "p", "o", "r", "t", "e", "d", " ", "R", "e", "c", "i", "p", "e">>

\* the cleaned object literal
\* this.cleanText(recipe.title) || 'Imported Recipe'
\* variant: the placeholder title carries the number of the invocation
CleanedTitleNumbered(r) ==
  IF cleanText(r.title) = <<>>
  THEN <<"I", "m", "p", "o", "r", "t", "e", "d", " ", "R", "e", "c", "i", "p", "e", " ">> \o ToDigits(self)
  ELSE cleanText(r.title)

CleanedTitle(r) == Or(Str(cleanText(r.title)), Str(ImportedRecipe)).v

\* variant: the numeric fields are copied without "|| null"
CleanedKeepsZero(r) ==
  [title |-> CleanedTitle(r),
   description |-> Or(Str(cleanText(r.description)), Str(<<>>)).v,
   ingredients |-> Or(Str(cleanText(r.ingredients)), Str(<<>>)).v,
   instructions |-> Or(Str(cleanText(r.instructions)), Str(<<>>)).v,
   cookingTime |-> r.cookingTime,
   prepTime |-> r.prepTime,
   servings |-> r.servings,
   difficulty |-> Or(r.difficulty, Str(Medium)).v,
   sourceUrl |-> r.sourceUrl,
   imageUrl |-> Or(r.imageUrl, Null)]

Cleaned(r) ==
  [title |-> CleanedTitle(r),
   description |-> Or(Str(cleanText(r.description)), Str(<<>>)).v,
   ingredients |-> Or(Str(cleanText(r.ingredients)), Str(<<>>)).v,
   instructions |-> Or(Str(cleanText(r.instructions)), Str(<<>>)).v,
   cookingTime |-> Or(r.cookingTime, Null),
   prepTime |-> Or(r.prepTime, Null),
   servings |-> Or(r.servings, Null),
   difficulty |-> Or(r.difficulty, Str(Medium)).v,
   sourceUrl |-> r.sourceUrl,
   imageUrl |-> Or(r.imageUrl, Null)]

\* a cleanText call inside the object literal raises
CleanedThrows(r) == cleanTextThrows(r.title) \/ cleanTextThrows(r.description)

\* variant: the length test admits one-character titles
TitleRejectedBelowOne(cleaned) == cleaned.title = <<>> \/ Len(cleaned.title) < 1

\* !cleaned.title || cleaned.title.length < 2
TitleRejected(cleaned) == cleaned.title = <<>> \/ Len(cleaned.title) < 2

(***************************************************************************)
(* The url argument and the remote server                                  *)
(***************************************************************************)
\* parsedUrl.protocol: the scheme in lower case followed by ":"
Protocol(u) ==
  CASE u.scheme \in {"http", "HTTP"} -> "http:"
    [] u.scheme \in {"https", "HTTPS"} -> "https:"
    [] u.scheme \in {"ftp", "FTP"} -> "ftp:"
    [] u.scheme = "file" -> "file:"
    [] OTHER -> "javascript:"

\* variant: the request carries no maxContentLength
AxiosGetNoCap(r) ==
  IF ~r.resolves THEN Err("ENOTFOUND", 0, "getaddrinfo ENOTFOUND", 0)
  ELSE IF ~r.connects THEN Err("ECONNREFUSED", 0, "connect ECONNREFUSED", 0)
  ELSE IF r.millis >= service.timeout THEN Err("ECONNABORTED", 0, "timeout of {n}ms exceeded", service.timeout)
  ELSE IF ~(r.status >= 200 /\ r.status < 300)
       THEN Err(IF r.status >= 400 /\ r.status < 500 THEN "ERR_BAD_REQUEST"
                ELSE "ERR_BAD_RESPONSE",
                r.status, "Request failed with status code {n}", r.status)
  ELSE NoError

\* axios.get(url, {timeout, maxContentLength, headers}) against a server
\* described by r: the rejection error, or NoError when the promise resolves
AxiosGet(r) ==
  IF ~r.resolves THEN Err("ENOTFOUND", 0, "getaddrinfo ENOTFOUND", 0)
  ELSE IF ~r.connects THEN Err("ECONNREFUSED", 0, "connect ECONNREFUSED", 0)
  ELSE IF r.millis >= service.timeout THEN Err("ECONNABORTED", 0, "timeout of {n}ms exceeded", service.timeout)
  ELSE IF r.bytes > service.maxSize
       THEN Err("ERR_BAD_RESPONSE", 0, "maxContentLength size of {n} exceeded", service.maxSize)
  ELSE IF ~(r.status >= 200 /\ r.status < 300)
       THEN Err(IF r.status >= 400 /\ r.status < 500 THEN "ERR_BAD_REQUEST"
                ELSE "ERR_BAD_RESPONSE",
                r.status, "Request failed with status code {n}", r.status)
  ELSE NoError

\* body bytes axios holds when the GET settles: nothing of a request that
\* never answered in time, and the stream is destroyed on the chunk that
\* takes the total past maxContentLength
Buffered(r) ==
  IF ~r.resolves \/ ~r.connects \/ r.millis >= service.timeout THEN 0
  ELSE IF r.bytes > service.maxSize THEN service.maxSize ELSE r.bytes

(***************************************************************************)
(* importFromUrl: the catch block                                          *)
(***************************************************************************)
Msg(text, detail, n) == [text |-> text, detail |-> detail, n |-> n]

\* variant: the status >= 400 branch is tested before the 404 branch
ThrownStatusFirst(e) ==
  IF e.code = "ENOTFOUND" THEN Msg("Website not found. Please check the URL.", "", 0)
  ELSE IF e.code = "TIMEOUT"
       THEN Msg("Request timeout. The website took too long to respond.", "", 0)
  ELSE IF e.status # 0 /\ e.status >= 400 THEN Msg("Website returned error: {n}", "", e.status)
  ELSE IF e.status # 0 /\ e.status = 404 THEN Msg("Recipe page not found (404).", "", 0)
  ELSE Msg("Failed to import recipe: ", e.message.text, e.message.n)

Thrown(e) ==
  IF e.code = "ENOTFOUND" THEN Msg("Website not found. Please check the URL.", "", 0)
  ELSE IF e.code = "TIMEOUT"
       THEN Msg("Request timeout. The website took too long to respond.", "", 0)
  ELSE IF e.status # 0 /\ e.status = 404 THEN Msg("Recipe page not found (404).", "", 0)
  ELSE IF e.status # 0 /\ e.status >= 400 THEN Msg("Website returned error: {n}", "", e.status)
  ELSE Msg("Failed to import recipe: ", e.message.text, e.message.n)

(***************************************************************************)
(* Inputs: urls, pages and servers                                         *)
(***************************************************************************)
SeqsUpTo(S, n) == UNION {[1..k -> S] : k \in 0..n}

Urls ==
  {[parses |-> FALSE, scheme |-> "", href |-> "not a url"]} \cup
  {[parses |-> TRUE, scheme |-> sc, href |-> "//site/recipe"] :
     sc \in {"http", "https", "HTTP", "ftp", "file", "javascript"}}

Data(type, name, ingredient, instructions) ==
  [t |-> "object", type |-> type, name |-> name, description |-> Undefined,
   recipeIngredient |-> ingredient, recipeInstructions |-> instructions,
   cookTime |-> Undefined, prepTime |-> Undefined, recipeYield |-> Undefined,
   difficulty |-> Undefined, image |-> Undefined]

Block(json) == [parses |-> TRUE, json |-> json]
Malformed == [parses |-> FALSE, json |-> Null]

El(kind, text) == [kind |-> kind, text |-> text, content |-> Undefined, src |-> Undefined]
Meta(kind, content) == [kind |-> kind, text |-> <<>>, content |-> content, src |-> Undefined]
Img(kind, src) == [kind |-> kind, text |-> <<>>, content |-> Undefined, src |-> src]

Page(scripts, dom) == [scripts |-> scripts, dom |-> dom]

TitleTexts ==
  {<<>>, <<" ">>, <<"a">>, <<"a", "b">>, <<" ", "a", " ">>, <<"a", " ", " ", "b">>,
   <<"a", "\n", "\n", "b">>, <<"\n", "a", "\t">>}

TitleNames == {Undefined, Null, Num(0), Num(5)} \cup {Str(x) : x \in TitleTexts}

TitleDoms ==
  {<<>>,
   <<El("h1", <<"a">>)>>,
   <<El("h1", <<" ", "b", "a", "\n">>)>>,
   <<El("title", <<"a", "b", " ", "|", " ", "b">>)>>,
   <<El("title", <<"|", "b">>)>>,
   <<El("meta[property=og:title]", <<>>), El("title", <<"b", "b">>)>>,
   <<El("h1", <<" ">>), El("title", <<"b">>), El(".recipe-title", <<"a", "b">>)>>,
   <<El("h1", <<"a", "b">>), El(".recipe-title", <<"b", "a">>)>>,
   <<El(".recipe-title", <<"b", "a">>), El("h1.entry-title", <<"b", "b">>), El("h1", <<"a", "b">>)>>,
   <<Meta("meta[property=og:title]", Str(<<"a", "b">>)), El("title", <<"b", "b">>), El("h1", <<"b", "a">>)>>}

IngredientItems ==
  {Str(<<"a">>), Str(<<"b", " ", "c">>), Str(<<>>), Obj(Undefined, Str(<<"b">>)), Null}

IngredientVals ==
  {Undefined, Str(<<"a", "\n", "b">>)} \cup {Arr(a) : a \in SeqsUpTo(IngredientItems, MaxItems)}

InstructionItems ==
  {Str(<<"a">>), Str(<<>>), Obj(Str(<<"b">>), Undefined), Obj(Undefined, Str(<<"c">>)),
   Obj(Undefined, Undefined), Null}

InstructionVals ==
  {Undefined, Str(<<"a", "\n", "b">>)} \cup {Arr(a) : a \in SeqsUpTo(InstructionItems, MaxItems)}

PlainRecipe == Data("Recipe", Str(<<"a", "b">>), Arr(<<Str(<<"a">>)>>), Arr(<<Str(<<"a">>)>>))

Blocks ==
  {Malformed,
   Block(Null),
   Block(Data("Article", Str(<<"b", "b">>), Undefined, Undefined)),
   Block(PlainRecipe),
   Block(Data("[...,Recipe]", Str(<<"b", "a">>), Undefined, Undefined)),
   Block(Data("Recipe", Undefined, Arr(<<Str(<<"a">>)>>), Undefined)),
   Block(Data("Recipe", Str(<<"a", "a">>), Arr(<<Null>>), Undefined)),
   Block(Arr(<<Data("Article", Undefined, Undefined, Undefined), PlainRecipe>>)),
   Block(Arr(<<Null, PlainRecipe>>)),
   Block(Arr(<<Data("[...,Recipe]", Str(<<"b", "a">>), Undefined, Undefined), PlainRecipe>>))}

Elements ==
  {El("h1", <<"a", "b">>),
   El("title", <<"b", "a">>),
   El(".ingredients li", <<"a">>),
   El(".ingredient", <<" ", "b">>),
   El(".instructions li", <<"a">>),
   El(".instruction", <<"c", " ">>)}

TitlePages ==
  {Page(<<Block(Data(ty, nm, Undefined, Undefined))>>, dom) :
     ty \in {"Recipe", "Article"}, nm \in TitleNames, dom \in TitleDoms}

IngredientPages ==
  {Page(<<Block(Data("Recipe", Str(<<"a", "b">>), v, Undefined))>>, <<>>) : v \in IngredientVals}

InstructionPages ==
  {Page(<<Block(Data("Recipe", Str(<<"a", "b">>), Undefined, v))>>, <<>>) : v \in InstructionVals}

BlockPages ==
  {Page(sc, dom) : sc \in SeqsUpTo(Blocks, MaxBlocks),
                   dom \in {<<>>, <<El("h1", <<"b", "c">>)>>}}

HeuristicPages == {Page(<<>>, dom) : dom \in SeqsUpTo(Elements, MaxItems)}

TimeTexts ==
  {<<"P", "T", "1", "H", "3", "0", "M">>,
   <<"P", "T", "4", "5", "M">>,
   <<"4", "5", " ", "m", "i", "n", "u", "t", "e", "s">>,
   <<"1", " ", "h", "o", "u", "r", " ", "1", "5", " ", "m", "i", "n">>,
   <<"P", "T">>,
   <<"P", "T", "0", "M">>,
   <<"a", "b", "c">>,
   <<"3", "0">>,
   <<"0", " ", "m", "i", "n">>,
   <<"2", " ", "H", "r", " ", "5", " ", "M">>,
   <<"O", "P", "T", " ", "5", " ", "M", "I", "N">>,
   <<"P", "T", "1", "5">>,
   <<"S", "E", "P", "T">>}

TimeVals == {Undefined, Null, Str(<<>>), Num(30), Num(0)} \cup {Str(x) : x \in TimeTexts}

YieldVals ==
  {Undefined, Num(4), Num(0), Arr(<<Str(<<"6", " ", "s", "e", "r", "v", "i", "n", "g", "s">>)>>), ImageObject(Null)} \cup
  {Str(<<"S", "e", "r", "v", "e", "s", " ", "4">>),
   Str(<<"4", "-", "6", " ", "s", "e", "r", "v", "i", "n", "g", "s">>),
   Str(<<"n", "o", "n", "e">>),
   Str(<<"0">>)}

DifficultyVals ==
  {Undefined, Str(<<>>), Num(3)} \cup
  {Str(<<"B", "e", "g", "i", "n", "n", "e", "r", " ", "f", "r", "i", "e", "n", "d", "l", "y">>),
   Str(<<"E", "x", "p", "e", "r", "t", " ", "l", "e", "v", "e", "l">>),
   Str(<<"I", "n", "t", "e", "r", "m", "e", "d", "i", "a", "t", "e">>),
   Str(<<"n", "o", "t", " ", "E", "A", "S", "Y", " ", "b", "u", "t", " ", "h", "a", "r", "d">>),
   Str(<<"H", "A", "R", "D">>),
   Str(<<"D", "i", "f", "f", "i", "c", "u", "l", "t">>)}

SomeUrl == <<"/", "a", ".", "j", "p", "g">>
OtherUrl == <<"/", "b", ".", "j", "p", "g">>

ImageVals ==
  {Undefined, Str(SomeUrl), Arr(<<>>), Arr(<<Str(SomeUrl), Str(OtherUrl)>>),
   Arr(<<ImageObject(Str(SomeUrl))>>), ImageObject(Str(SomeUrl)), ImageObject(Undefined)}

DescriptionVals == {Undefined, Null, Num(5), Str(<<>>), Str(<<"a", " ", "\n", "b">>)}

\* a page body whose heuristic fields are all present
RichDom ==
  <<El("h1", <<"b", "c">>),
    Meta("meta[name=description]", Str(<<"c">>)),
    El(".ingredients li", <<"a">>),
    El(".instructions li", <<"b">>),
    El(".cook-time", <<"4", "5", " ", "m", "i", "n", "u", "t", "e", "s">>),
    El(".prep-time", <<"P", "T", "1", "H">>),
    El(".servings", <<"S", "e", "r", "v", "e", "s", " ", "8">>),
    Meta("meta[property=og:image]", Str(OtherUrl))>>

\* a Recipe object with every field present
FullRecipe ==
  [PlainRecipe EXCEPT !.description = Str(<<"a", "b", "c">>),
                      !.cookTime = Str(<<"P", "T", "1", "0", "M">>),
                      !.prepTime = Str(<<"P", "T", "5", "M">>),
                      !.recipeYield = Str(<<"4", " ", "s", "e", "r", "v", "i", "n", "g", "s">>),
                      !.difficulty = Str(<<"E", "a", "s", "y">>),
                      !.image = Str(SomeUrl)]

\* FullRecipe with the fields in missing removed
Without(missing) ==
  [f \in DOMAIN FullRecipe |-> IF f \in missing THEN Undefined ELSE FullRecipe[f]]

OptionalFields ==
  {"recipeYield", "cookTime", "prepTime", "image", "description", "recipeIngredient",
   "recipeInstructions", "difficulty"}

PartialPages == {Page(<<Block(Without(missing))>>, RichDom) : missing \in SUBSET OptionalFields}

FieldPages ==
  {Page(<<Block([FullRecipe EXCEPT !.cookTime = v])>>, RichDom) : v \in TimeVals} \cup
  {Page(<<Block([FullRecipe EXCEPT !.prepTime = v])>>, <<>>) : v \in TimeVals} \cup
  {Page(<<Block([FullRecipe EXCEPT !.recipeYield = v])>>, RichDom) : v \in YieldVals} \cup
  {Page(<<Block([FullRecipe EXCEPT !.difficulty = v])>>, RichDom) : v \in DifficultyVals} \cup
  {Page(<<Block([FullRecipe EXCEPT !.image = v])>>, <<>>) : v \in ImageVals} \cup
  {Page(<<Block([FullRecipe EXCEPT !.description = v])>>, <<>>) : v \in DescriptionVals}

FieldElements ==
  {El(".cook-time", <<"1", " ", "h", "o", "u", "r", " ", "1", "5", " ", "m", "i", "n">>),
   El(".recipe-cook-time", <<"P", "T">>),
   El(".prep-time", <<"s", "o", "o", "n">>),
   El(".servings", <<"S", "e", "r", "v", "e", "s", " ", "0">>),
   El(".yield", <<"1", "2">>),
   Meta("meta[name=description]", Str(<<"c">>)),
   Meta("meta[property=og:image]", Undefined),
   Img("img.recipe", Str(SomeUrl))}

HeuristicFieldPages ==
  {Page(<<>>, <<El("h1", <<"a", "b">>)>> \o dom) : dom \in SeqsUpTo(FieldElements, MaxItems)}

Pages ==
  TitlePages \cup IngredientPages \cup InstructionPages \cup BlockPages \cup HeuristicPages
    \cup PartialPages \cup FieldPages \cup HeuristicFieldPages

DefaultPage == Page(<<Block(PlainRecipe)>>, <<>>)

Statuses == {200, 204, 301, 304, 400, 401, 404, 500, 503, 599}

\* a server: does the host resolve and accept the connection, how long the
\* response takes, how long its body is, and the status and page axios
\* settles with once redirects are followed
Server(resolves, connects, millis, bytes, status, page) ==
  [resolves |-> resolves, connects |-> connects, millis |-> millis, bytes |-> bytes,
   status |-> status, page |-> page]

Remotes ==
  {Server(rs, cn, ms, by, st, DefaultPage) :
     rs \in BOOLEAN, cn \in BOOLEAN, ms \in {120, timeout - 1, timeout + 1},
     by \in {2048, maxSize, maxSize + 1}, st \in Statuses} \cup
  {Server(TRUE, TRUE, 120, 2048, 200, page) : page \in Pages}

(***************************************************************************)
(* importFromUrl                                                           *)
(***************************************************************************)
Pending == [status |-> "pending"]
Returned(cleaned) == [status |-> "returned", recipe |-> cleaned]
Threw(message) == [status |-> "thrown", message |-> message]

\* no second call, no request
NoPeer == [pc |-> "none"]
NoRoute == [pc |-> "none"]

Init ==
  /\ service = Constructed
  /\ self = 1
  /\ peer = NoPeer
  /\ route = NoRoute
  /\ db = <<>>
  /\ pc = "validate"
  /\ url \in Urls
  /\ remote \in Remotes
  /\ gets = 0
  /\ response = Null
  /\ error = NoError
  /\ recipe = Null
  /\ outcome = Pending
  /\ trace = <<>>

\* variant: the protocol check is missing
ValidateParseOnly ==
  /\ pc = "validate"
  /\ trace' = Append(trace, "validate")
  /\ IF ~url.parses
     THEN error' = InvalidUrlError /\ pc' = "catch"
     ELSE error' = error /\ pc' = "get"
  /\ UNCHANGED <<url, remote, gets, response, recipe, outcome>>
  /\ UNCHANGED outside

\* new URL(url) and the protocol check
Validate ==
  /\ pc = "validate"
  /\ trace' = Append(trace, "validate")
  /\ IF ~url.parses
     THEN error' = InvalidUrlError /\ pc' = "catch"
     ELSE IF Protocol(url) \notin {"http:", "https:"}
          THEN error' = ProtocolError /\ pc' = "catch"
          ELSE error' = error /\ pc' = "get"
  /\ UNCHANGED <<url, remote, gets, response, recipe, outcome>>
  /\ UNCHANGED outside

\* variant: a rejected GET still hands its body to the extractors
GetKeepsBody ==
  /\ pc = "get"
  /\ trace' = Append(trace, "get")
  /\ gets' = gets + 1
  /\ IF AxiosGet(remote) # NoError /\ AxiosGet(remote).status = 0
     THEN error' = AxiosGet(remote) /\ response' = response /\ pc' = "catch"
     ELSE error' = error /\ response' = remote.page /\ pc' = "jsonLd"
  /\ UNCHANGED <<url, remote, recipe, outcome>>
  /\ UNCHANGED outside

\* variant: a request that timed out doubles the timeout of the instance
GetBacksOff ==
  /\ pc = "get"
  /\ trace' = Append(trace, "get")
  /\ gets' = gets + 1
  /\ IF AxiosGet(remote) # NoError
     THEN error' = AxiosGet(remote) /\ response' = response /\ pc' = "catch"
     ELSE error' = error /\ response' = remote.page /\ pc' = "jsonLd"
  /\ service' = IF AxiosGet(remote).code = "ECONNABORTED"
                THEN [service EXCEPT !.timeout = 2 * @] ELSE service
  /\ UNCHANGED <<url, remote, recipe, outcome>>
  /\ UNCHANGED <<self, peer, route, db>>

\* await axios.get(url, ...)
Get ==
  /\ pc = "get"
  /\ trace' = Append(trace, "get")
  /\ gets' = gets + 1
  /\ IF AxiosGet(remote) # NoError
     THEN error' = AxiosGet(remote) /\ response' = response /\ pc' = "catch"
     ELSE error' = error /\ response' = remote.page /\ pc' = "jsonLd"
  /\ UNCHANGED <<url, remote, recipe, outcome>>
  /\ UNCHANGED outside

\* variant: a structured candidate without servings also falls back
StructuredExtractNeedsYield ==
  /\ pc = "jsonLd"
  /\ trace' = Append(trace, "jsonLd")
  /\ recipe' = extractFromJsonLd(response)
  /\ pc' = IF recipe' = Null \/ ~Truthy(recipe'.title) \/ ~Truthy(recipe'.servings)
           THEN "html" ELSE "clean"
  /\ UNCHANGED <<url, remote, gets, response, error, outcome>>
  /\ UNCHANGED outside

\* let recipe = this.extractFromJsonLd($)
StructuredExtract ==
  /\ pc = "jsonLd"
  /\ trace' = Append(trace, "jsonLd")
  /\ recipe' = extractFromJsonLd(response)
  /\ pc' = IF recipe' = Null \/ ~Truthy(recipe'.title) THEN "html" ELSE "clean"
  /\ UNCHANGED <<url, remote, gets, response, error, outcome>>
  /\ UNCHANGED outside

\* variant: fields the heuristics leave empty are filled from the structured candidate
HeuristicExtractMerges ==
  /\ pc = "html"
  /\ trace' = Append(trace, "html")
  /\ recipe' =
       IF recipe = Null THEN extractFromHtml(response)
       ELSE [f \in DOMAIN extractFromHtml(response) |->
               Or(extractFromHtml(response)[f], recipe[f])]
  /\ pc' = "clean"
  /\ UNCHANGED <<url, remote, gets, response, error, outcome>>
  /\ UNCHANGED outside

\* recipe = this.extractFromHtml($)
HeuristicExtract ==
  /\ pc = "html"
  /\ trace' = Append(trace, "html")
  /\ recipe' = extractFromHtml(response)
  /\ pc' = "clean"
  /\ UNCHANGED <<url, remote, gets, response, error, outcome>>
  /\ UNCHANGED outside

\* variant: the source url is taken from the parsed URL, scheme in lower case
NormalizeParsedHref ==
  /\ pc = "clean"
  /\ trace' = Append(trace, "clean")
  /\ recipe' = [sourceUrl |-> [url EXCEPT !.scheme = IF @ = "HTTP" THEN "http" ELSE @]] @@ recipe
  /\ IF CleanedThrows(recipe)
     THEN error' = TypeErrorReplace /\ outcome' = outcome /\ pc' = "catch"
     ELSE IF TitleRejected(Cleaned(recipe'))
          THEN error' = TitleError /\ outcome' = outcome /\ pc' = "catch"
          ELSE error' = error /\ outcome' = Returned(Cleaned(recipe')) /\ pc' = "done"
  /\ UNCHANGED <<url, remote, gets, response>>
  /\ UNCHANGED outside

\* recipe.sourceUrl = url; return this.cleanRecipeData(recipe)
Normalize ==
  /\ pc = "clean"
  /\ trace' = Append(trace, "clean")
  /\ recipe' = [sourceUrl |-> url] @@ recipe
  /\ IF CleanedThrows(recipe)
     THEN error' = TypeErrorReplace /\ outcome' = outcome /\ pc' = "catch"
     ELSE IF TitleRejected(Cleaned(recipe'))
          THEN error' = TitleError /\ outcome' = outcome /\ pc' = "catch"
          ELSE error' = error /\ outcome' = Returned(Cleaned(recipe')) /\ pc' = "done"
  /\ UNCHANGED <<url, remote, gets, response>>
  /\ UNCHANGED outside

\* variant: the catch block re-issues the request once after a failed GET
CatchRetries ==
  /\ pc = "catch"
  /\ trace' = Append(trace, "catch")
  /\ IF gets = 1 /\ response = Null
     THEN outcome' = outcome /\ pc' = "get"
     ELSE outcome' = Threw(Thrown(error)) /\ pc' = "done"
  /\ UNCHANGED <<url, remote, gets, response, error, recipe>>
  /\ UNCHANGED outside

\* catch (error) { ... throw new Error(...) }
Catch ==
  /\ pc = "catch"
  /\ trace' = Append(trace, "catch")
  /\ outcome' = Threw(Thrown(error))
  /\ pc' = "done"
  /\ UNCHANGED <<url, remote, gets, response, error, recipe>>
  /\ UNCHANGED outside

Next ==
  \/ Validate
  \/ Get
  \/ StructuredExtract
  \/ HeuristicExtract
  \/ Normalize
  \/ Catch

Spec == Init /\ [][Next]_vars

TypeOK ==
  /\ pc \in {"validate", "get", "jsonLd", "html", "clean", "catch", "done"}
  /\ gets \in 0..1
  /\ outcome.status \in {"pending", "returned", "thrown"}

(***************************************************************************)
(* Vocabulary of the properties                                            *)
(***************************************************************************)
(* Two invocations on the one importService instance                       *)
(*                                                                         *)
(* importFromUrl is an async method of the single instance server.js       *)
(* creates.  A call runs without interruption up to "await axios.get" and  *)
(* again from the settling of the request to its end, so another call can  *)
(* start or resume only while the running one is suspended at the request  *)
(* or has finished.  The variables of call hold the running invocation,    *)
(* peer holds the other one.                                               *)
(***************************************************************************)
ConcurrentUrls ==
  {u \in Urls : ~u.parses \/ u.scheme \in {"http", "HTTP", "ftp"}}

ConcurrentPages ==
  {DefaultPage,
   Page(<<>>, <<>>),
   Page(<<>>, <<El("h1", <<"a">>)>>),
   Page(<<Block(FullRecipe)>>, RichDom),
   Page(<<Malformed>>, RichDom)}

ConcurrentRemotes ==
  {Server(FALSE, TRUE, 120, 2048, 200, DefaultPage),
   Server(TRUE, TRUE, timeout + 1, 2048, 200, DefaultPage),
   Server(TRUE, TRUE, 120, maxSize + 1, 200, DefaultPage),
   Server(TRUE, TRUE, 120, 2048, 404, DefaultPage)} \cup
  {Server(TRUE, TRUE, 120, 2048, 200, page) : page \in ConcurrentPages}

\* an invocation that has been called and has not started to run
Called(id, u, r) ==
  [id |-> id, pc |-> "validate", url |-> u, remote |-> r, gets |-> 0, response |-> Null,
   error |-> NoError, recipe |-> Null, outcome |-> Pending, trace |-> <<>>]

InitConcurrent ==
  /\ service = Constructed
  /\ self = 1
  /\ \E u \in ConcurrentUrls, r \in ConcurrentRemotes : peer = Called(2, u, r)
  /\ route = NoRoute
  /\ db = <<>>
  /\ pc = "validate"
  /\ url \in ConcurrentUrls
  /\ remote \in ConcurrentRemotes
  /\ gets = 0
  /\ response = Null
  /\ error = NoError
  /\ recipe = Null
  /\ outcome = Pending
  /\ trace = <<>>

\* the event loop leaves the running invocation at its await, or after its
\* end, and runs the other one
Switch ==
  /\ pc \in {"get", "done"}
  /\ peer.pc \notin {"none", "done"}
  /\ peer' = [id |-> self, pc |-> pc, url |-> url, remote |-> remote, gets |-> gets,
              response |-> response, error |-> error, recipe |-> recipe,
              outcome |-> outcome, trace |-> trace]
  /\ self' = peer.id
  /\ pc' = peer.pc
  /\ url' = peer.url
  /\ remote' = peer.remote
  /\ gets' = peer.gets
  /\ response' = peer.response
  /\ error' = peer.error
  /\ recipe' = peer.recipe
  /\ outcome' = peer.outcome
  /\ trace' = peer.trace
  /\ UNCHANGED <<service, route, db>>

NextConcurrent ==
  \/ Validate
  \/ Get
  \/ StructuredExtract
  \/ HeuristicExtract
  \/ Normalize
  \/ Catch
  \/ Switch

SpecConcurrent == InitConcurrent /\ [][NextConcurrent]_vars

(***************************************************************************)
(* server.js: POST /recipes/import                                         *)
(*                                                                         *)
(* One request through authenticateToken, the url validator,               *)
(* handleValidationErrors and the handler.  route holds the request, the   *)
(* createRecipe calls made for it and the response; db holds the rows of   *)
(* the recipes table.                                                      *)
(***************************************************************************)
\* ids of the rows of the users table
Users == {7, 9}

NoToken == [kind |-> "none", userId |-> 0]
Forged == [kind |-> "forged", userId |-> 7]
Signed(id) == [kind |-> "signed", userId |-> id]

\* the Authorization header: absent, not verifiable, or signed for a user id
Tokens == {NoToken, Forged, Signed(7), Signed(9), Signed(3)}

\* res.status(status).json(...)
Response(status, err, details, id, imported) ==
  [status |-> status, error |-> err, details |-> details, id |-> id, recipe |-> imported]

NoResponse == Response(0, "", Undefined, 0, Undefined)

\* body('url').isURL(): a url with one of the validator's default protocols
isURL(u) == u.parses /\ Protocol(u) \in {"http:", "https:", "ftp:"}

\* the values createRecipe binds to the columns of the INSERT
Row(recipeData) ==
  [user_id |-> recipeData.userId,
   title |-> recipeData.title,
   description |-> Or(Str(recipeData.description), Null),
   ingredients |-> Or(Str(recipeData.ingredients), Null),
   instructions |-> Or(Str(recipeData.instructions), Null),
   category_id |-> Null,
   cooking_time |-> Or(recipeData.cookingTime, Null),
   prep_time |-> Or(recipeData.prepTime, Null),
   servings |-> Or(recipeData.servings, Null),
   difficulty |-> Or(Str(recipeData.difficulty), Str(Medium)).v,
   image_path |-> Null,
   is_public |-> IF recipeData.isPublic THEN 1 ELSE 0,
   source_url |-> recipeData.sourceUrl]

\* a row another request stored earlier
EarlierRow ==
  Row([title |-> <<"b", "b">>, description |-> <<>>, ingredients |-> <<>>,
       instructions |-> <<>>, cookingTime |-> Null, prepTime |-> Null, servings |-> Null,
       difficulty |-> Medium, sourceUrl |-> Null, imageUrl |-> Null,
       userId |-> 9, isPublic |-> TRUE])

\* how a createRecipe call ends: both INSERTs run, the first one fails, or
\* the row is stored and the INSERT into the search index fails
CreateResults == {"stored", "insert fails", "index fails"}

DbErrorMessage == Msg("SQLITE_ERROR", "", 0)

RouteUrls == Urls

RouteRemotes == ConcurrentRemotes

InitRoute ==
  /\ service = Constructed
  /\ self = 1
  /\ peer = NoPeer
  /\ db \in {<<>>, <<EarlierRow>>}
  /\ \E tk \in Tokens :
       route = [pc |-> "auth", token |-> tk, user |-> Null, before |-> db,
                calls |-> <<>>, insertId |-> 0, response |-> NoResponse]
  /\ pc = "idle"
  /\ url \in RouteUrls
  /\ remote \in RouteRemotes
  /\ gets = 0
  /\ response = Null
  /\ error = NoError
  /\ recipe = Null
  /\ outcome = Pending
  /\ trace = <<>>

Send(r) == [route EXCEPT !.pc = "sent", !.response = r]

authenticateToken ==
  /\ route.pc = "auth"
  /\ route' =
       IF route.token.kind = "none"
       THEN Send(Response(401, "Access token required", Undefined, 0, Undefined))
       ELSE IF route.token.kind = "forged"
       THEN Send(Response(403, "Invalid or expired token", Undefined, 0, Undefined))
       ELSE IF route.token.userId \notin Users
       THEN Send(Response(401, "Invalid token", Undefined, 0, Undefined))
       ELSE [route EXCEPT !.pc = "validation", !.user = [id |-> route.token.userId]]
  /\ UNCHANGED call
  /\ UNCHANGED <<service, self, peer, db>>

\* variant: next() is called whatever validationResult holds
handleValidationErrorsPasses ==
  /\ route.pc = "validation"
  /\ route' = [route EXCEPT !.pc = "handler"]
  /\ UNCHANGED call
  /\ UNCHANGED <<service, self, peer, db>>

handleValidationErrors ==
  /\ route.pc = "validation"
  /\ route' =
       IF ~isURL(url)
       THEN Send(Response(400, "Validation failed",
                          Arr(<<Msg("Valid URL required", "", 0)>>), 0, Undefined))
       ELSE [route EXCEPT !.pc = "handler"]
  /\ UNCHANGED call
  /\ UNCHANGED <<service, self, peer, db>>

\* const importedData = await importService.importFromUrl(url)
ImportCall ==
  /\ route.pc = "handler"
  /\ pc = "idle"
  /\ pc' = "validate"
  /\ route' = [route EXCEPT !.pc = "await"]
  /\ UNCHANGED <<url, remote, gets, response, error, recipe, outcome, trace>>
  /\ UNCHANGED <<service, self, peer, db>>

\* {...importedData, userId: req.user.id, isPublic: false}
RecipeData(importedData, user) ==
  importedData @@ [userId |-> user.id, isPublic |-> FALSE]

\* variant: a createRecipe call that threw is made a second time
ImportStoreRetries ==
  /\ route.pc = "await"
  /\ pc = "done"
  /\ outcome.status = "returned"
  /\ \E result \in CreateResults :
       LET recipeData == RecipeData(outcome.recipe, route.user)
           recipeId == Len(db) + 1
       IN IF result = "stored"
          THEN /\ db' = Append(db, Row(recipeData))
               /\ route' = [Send(Response(201, "", Undefined, recipeId,
                                          [id |-> recipeId] @@ outcome.recipe))
                              EXCEPT !.calls = Append(@, recipeData), !.insertId = recipeId]
          ELSE /\ db' = IF result = "index fails"
                        THEN db \o <<Row(recipeData), Row(recipeData)>>
                        ELSE Append(db, Row(recipeData))
               /\ route' = [Send(Response(201, "", Undefined, Len(db'),
                                          [id |-> Len(db')] @@ outcome.recipe))
                              EXCEPT !.calls = @ \o <<recipeData, recipeData>>,
                                     !.insertId = Len(db')]
  /\ UNCHANGED call
  /\ UNCHANGED <<service, self, peer>>

\* the handler after a resolved import: db.createRecipe(recipeData), then
\* 201, or the catch when createRecipe throws
ImportStore ==
  /\ route.pc = "await"
  /\ pc = "done"
  /\ outcome.status = "returned"
  /\ \E result \in CreateResults :
       LET recipeData == RecipeData(outcome.recipe, route.user)
           recipeId == Len(db) + 1
       IN /\ db' = IF result = "insert fails" THEN db ELSE Append(db, Row(recipeData))
          /\ route' =
               IF result = "stored"
               THEN [Send(Response(201, "", Undefined, recipeId,
                                   [id |-> recipeId] @@ outcome.recipe))
                       EXCEPT !.calls = Append(@, recipeData), !.insertId = recipeId]
               ELSE [Send(Response(400, "Recipe import failed", DbErrorMessage, 0, Undefined))
                       EXCEPT !.calls = Append(@, recipeData)]
  /\ UNCHANGED call
  /\ UNCHANGED <<service, self, peer>>

\* variant: a failed import is answered with a fixed text and status 500
ImportCatchGeneric ==
  /\ route.pc = "await"
  /\ pc = "done"
  /\ outcome.status = "thrown"
  /\ route' = Send(Response(500, "Recipe import failed",
                            Msg("Internal server error", "", 0), 0, Undefined))
  /\ UNCHANGED call
  /\ UNCHANGED <<service, self, peer, db>>

\* the handler's catch after a rejected import
ImportCatch ==
  /\ route.pc = "await"
  /\ pc = "done"
  /\ outcome.status = "thrown"
  /\ route' = Send(Response(400, "Recipe import failed", outcome.message, 0, Undefined))
  /\ UNCHANGED call
  /\ UNCHANGED <<service, self, peer, db>>

NextRoute ==
  \/ authenticateToken
  \/ handleValidationErrors
  \/ ImportCall
  \/ Validate
  \/ Get
  \/ StructuredExtract
  \/ HeuristicExtract
  \/ Normalize
  \/ Catch
  \/ ImportStore
  \/ ImportCatch

SpecRoute == InitRoute /\ [][NextRoute]_vars

(***************************************************************************)
Done == pc = "done"
Succeeded == outcome.status = "returned"
Failed == outcome.status = "thrown"

\* stage st has run
Ran(st) == \E i \in 1..Len(trace) : trace[i] = st

\* how many times stage st has run
Runs(st) == Cardinality({i \in 1..Len(trace) : trace[i] = st})

BadUrl(u) == ~u.parses \/ Protocol(u) \notin {"http:", "https:"}

\* the ways a GET fails, read off the server
DnsFails(r) == ~r.resolves
ConnectFails(r) == r.resolves /\ ~r.connects
TimesOut(r) == r.resolves /\ r.connects /\ r.millis >= timeout
OverCap(r) == r.resolves /\ r.connects /\ r.millis < timeout /\ r.bytes > maxSize
Answers(r) == r.resolves /\ r.connects /\ r.millis < timeout /\ r.bytes <= maxSize
BadStatus(r) == Answers(r) /\ ~(r.status >= 200 /\ r.status < 300)
FetchFails(r) == DnsFails(r) \/ ConnectFails(r) \/ TimesOut(r) \/ OverCap(r) \/ BadStatus(r)

GenericFailure == "Failed to import recipe: "
NotFoundMessage == Msg("Recipe page not found (404).", "", 0)
RemoteErrorMessage(st) == Msg("Website returned error: {n}", "", st)
TimeoutMessage == Msg("Request timeout. The website took too long to respond.", "", 0)
ExtractionFailedMessage == Msg(GenericFailure, "Could not extract recipe title from the page", 0)
PayloadMessage == Msg(GenericFailure, "maxContentLength size of {n} exceeded", maxSize)
InvalidUrlMessages ==
  {Msg(GenericFailure, "Invalid URL", 0),
   Msg(GenericFailure, "Invalid URL protocol. Only HTTP and HTTPS are supported.", 0)}

\* the kind of a failure: its message without the variable parts
FailureKind(m) == m.text

\* neither extractor recovers a title from the page
NoTitleOnPage(page) ==
  /\ extractFromJsonLd(page) = Null \/ ~Truthy(extractFromJsonLd(page).title)
  /\ extractFromHtml(page).title.v = <<>>

\* the page has a single ld+json block holding one Recipe object with a
\* usable name, so the structured candidate is the one normalized
SingleRecipe(page) ==
  /\ Len(page.scripts) = 1
  /\ page.scripts[1].parses
  /\ page.scripts[1].json.t = "object"
  /\ IsRecipeType(page.scripts[1].json)
  /\ IsString(page.scripts[1].json.name)
  /\ Len(cleanText(page.scripts[1].json.name)) >= 2

TheRecipe(page) == page.scripts[1].json

NonEmptyStrings(x) ==
  /\ IsArray(x)
  /\ Len(x.v) >= 1
  /\ \A i \in 1..Len(x.v) : IsString(x.v[i]) /\ x.v[i].v # <<>>

NonEmptySteps(x) ==
  /\ IsArray(x)
  /\ Len(x.v) >= 1
  /\ \A i \in 1..Len(x.v) : ~PropertyReadThrows(x.v[i]) /\ StepText(x.v[i]) # <<>>

\* line begins with the step number k followed by ". "
HasStepPrefix(line, k) ==
  LET prefix == ToDigits(k) \o <<".", " ">>
  IN Len(line) >= Len(prefix) /\ SubSeq(line, 1, Len(prefix)) = prefix

(***************************************************************************)
(* C1: when neither the JSON-LD extractor nor the heuristic extractor      *)
(* recovers a title from the fetched page, importFromUrl fails with the    *)
(* title extraction failure and returns no recipe.                         *)
(* Violated: cleanRecipeData substitutes 'Imported Recipe' and succeeds.   *)
(***************************************************************************)
C1_NoFabricatedTitle ==
  (Done /\ response # Null /\ NoTitleOnPage(response)) =>
    (Failed /\ outcome.message = ExtractionFailedMessage)

C3_IngredientLines ==
  (Succeeded /\ SingleRecipe(response)
     /\ NonEmptyStrings(TheRecipe(response).recipeIngredient)) =>
    LET entries == TheRecipe(response).recipeIngredient.v
        lines == Lines(outcome.recipe.ingredients)
    IN /\ Len(lines) = Len(entries)
       /\ \A i \in 1..Len(entries) : lines[i] = cleanText(entries[i])

(***************************************************************************)
(* C4: for a Recipe JSON-LD block whose recipeInstructions is an array of  *)
(* N steps, the returned instructions are exactly N lines, the k-th line   *)
(* prefixed with the step number k.                                        *)
(* Violated: cleanText turns the joining newlines into spaces.             *)
(***************************************************************************)
C4_InstructionLines ==
  (Succeeded /\ SingleRecipe(response)
     /\ NonEmptySteps(TheRecipe(response).recipeInstructions)) =>
    LET steps == TheRecipe(response).recipeInstructions.v
        lines == Lines(outcome.recipe.instructions)
    IN /\ Len(lines) = Len(steps)
       /\ \A k \in 1..Len(steps) : HasStepPrefix(lines[k], k)

(***************************************************************************)
(* C5: for a url that does not parse or whose protocol is neither http:    *)
(* nor https:, no GET is ever issued and importFromUrl throws the          *)
(* invalid-URL message.                                                    *)
(***************************************************************************)
C5_InvalidUrlBeforeGet ==
  BadUrl(url) =>
    /\ gets = 0
    /\ ~Ran("get")
    /\ Done => (Failed /\ outcome.message \in InvalidUrlMessages)

C5_Witness ==
  /\ Done
  /\ url.parses
  /\ Protocol(url) \in {"ftp:", "file:"}
  /\ Failed
  /\ gets = 0

(***************************************************************************)
(* C6: once the GET has failed (DNS, connection, timeout, size cap or a    *)
(* non-2xx status) no extractor and no normalizer runs, no candidate and   *)
(* no recipe exists, and importFromUrl ends by throwing.                   *)
(***************************************************************************)
C6_FetchFailureIsTerminal ==
  (gets >= 1 /\ FetchFails(remote)) =>
    /\ ~Ran("jsonLd") /\ ~Ran("html") /\ ~Ran("clean")
    /\ recipe = Null
    /\ ~Succeeded
    /\ Done => Failed

C6_Witness ==
  /\ Done
  /\ gets = 1
  /\ BadStatus(remote)
  /\ remote.status = 304
  /\ Failed

(***************************************************************************)
(* C7: a GET rejected with status 404 throws 'Recipe page not found        *)
(* (404).', a GET rejected with any other status in 400..599 throws        *)
(* 'Website returned error: <status>' with that status, and each message   *)
(* is thrown for its own class only.                                       *)
(***************************************************************************)
C7_StatusClassification ==
  Done =>
    /\ (gets = 1 /\ BadStatus(remote) /\ remote.status = 404) =>
         (Failed /\ outcome.message = NotFoundMessage)
    /\ (gets = 1 /\ BadStatus(remote) /\ remote.status # 404
          /\ remote.status >= 400 /\ remote.status <= 599) =>
         (Failed /\ outcome.message = RemoteErrorMessage(remote.status))
    /\ (Failed /\ outcome.message = NotFoundMessage) =>
         (BadStatus(remote) /\ remote.status = 404)
    /\ (Failed /\ FailureKind(outcome.message) = FailureKind(RemoteErrorMessage(0))) =>
         (BadStatus(remote) /\ remote.status # 404 /\ outcome.message.n = remote.status)

C7_Witness ==
  /\ Done
  /\ gets = 1
  /\ BadStatus(remote)
  /\ remote.status = 404
  /\ outcome = Threw(NotFoundMessage)

(***************************************************************************)
(* C8: a GET that does not complete within the 30000 ms timeout makes      *)
(* importFromUrl throw the dedicated 'Request timeout' message.            *)
(* Violated: axios rejects with code ECONNABORTED, never TIMEOUT, so the   *)
(* catch block falls through to the generic message.                       *)
(***************************************************************************)
C8_TimeoutMessage ==
  (Done /\ gets = 1 /\ TimesOut(remote)) =>
    (Failed /\ outcome.message = TimeoutMessage)

(***************************************************************************)
(* C9 as stated: a body over the 1 MiB cap makes importFromUrl fail with a *)
(* failure kind of its own, different from the kind of every failure with  *)
(* another cause.                                                          *)
(* Violated: the failure is the generic 'Failed to import recipe: ' kind,  *)
(* which invalid urls and title failures share.                            *)
(***************************************************************************)
OtherFailures ==
  {Thrown(InvalidUrlError), Thrown(ProtocolError), Thrown(TitleError),
   Thrown(TypeErrorReplace)} \cup
  {Thrown(AxiosGet(r)) : r \in {x \in Remotes : FetchFails(x) /\ ~OverCap(x)}}

C10_AtMostOneGet ==
  /\ gets <= 1
  /\ Runs("get") = gets
  /\ (Done /\ ~BadUrl(url) /\ FetchFails(remote)) => (Failed /\ gets = 1)

C10_Witness ==
  /\ Done
  /\ gets = 1
  /\ TimesOut(remote)
  /\ Failed

(***************************************************************************)
(* Vocabulary of the extractor properties                                  *)
(***************************************************************************)
\* position of the first run of stage st in the trace, 0 when it has not run
FirstRun(st) ==
  LET ps == {i \in 1..Len(trace) : trace[i] = st}
  IN IF ps = {} THEN 0 ELSE CHOOSE i \in ps : \A j \in ps : i <= j

\* the structured extractor gave no match or a candidate without a title
NoStructuredTitle(page) ==
  extractFromJsonLd(page) = Null \/ ~Truthy(extractFromJsonLd(page).title)

\* the candidate without the sourceUrl importFromUrl attaches to it
Candidate(r) == [f \in DOMAIN r \ {"sourceUrl"} |-> r[f]]

\* a block from which the structured extractor returns a candidate
GoodBlock(b) == b.parses /\ ScanBlock(BlockRecipes(b)).hit

\* a block that is not JSON or raises while it is interpreted
BrokenBlock(b) ==
  \/ ~b.parses
  \/ \E i \in 1..Len(BlockRecipes(b)) :
       \/ PropertyReadThrows(BlockRecipes(b)[i])
       \/ IsRecipeType(BlockRecipes(b)[i]) /\ JsonLdCandidateThrows(BlockRecipes(b)[i])

\* index of the first good block, 0 when there is none
FirstGood(scripts) ==
  LET gs == {i \in 1..Len(scripts) : GoodBlock(scripts[i])}
  IN IF gs = {} THEN 0 ELSE CHOOSE i \in gs : \A j \in gs : i <= j

\* the present fields of the Recipe object are of the types the extractor reads
WellTyped(data) == ~JsonLdCandidateThrows(data) /\ ~cleanTextThrows(data.description)

NumericFields == {"cookingTime", "prepTime", "servings"}

\* the JSON-LD property a numeric field is parsed from
SourceOf(f) ==
  CASE f = "cookingTime" -> "cookTime"
    [] f = "prepTime" -> "prepTime"
    [] OTHER -> "recipeYield"

\* the structured candidate of the single Recipe block was normalized
FromSingleRecipe == Succeeded /\ SingleRecipe(response) /\ ~Ran("html")

\* the difficulty keywords, in the order they are consulted
DifficultyRule(text) ==
  LET low == ToLowerCase(text)
  IN IF Includes(low, Easy) \/ Includes(low, <<"b", "e", "g", "i", "n", "n", "e", "r">>) THEN Easy
     ELSE IF Includes(low, Hard) \/ Includes(low, <<"d", "i", "f", "f", "i", "c", "u", "l", "t">>) \/ Includes(low, <<"e", "x", "p", "e", "r", "t">>)
          THEN Hard
     ELSE Medium

(***************************************************************************)
(* C11: the heuristic extractor runs exactly when the structured extractor *)
(* gave no match or a candidate without a title, and only after it; the    *)
(* candidate handed to cleanRecipeData is the structured candidate or the  *)
(* heuristic candidate, whole, never a mix of the two.                     *)
(***************************************************************************)
C11_OneExtractorFeedsNormalizer ==
  /\ Ran("html") =>
       /\ Runs("jsonLd") = 1 /\ Runs("html") = 1
       /\ FirstRun("jsonLd") < FirstRun("html")
       /\ NoStructuredTitle(response)
  /\ (pc = "clean" \/ Ran("clean")) =>
       /\ Ran("jsonLd")
       /\ Ran("html") <=> NoStructuredTitle(response)
       /\ Candidate(recipe) = IF Ran("html") THEN extractFromHtml(response)
                              ELSE extractFromJsonLd(response)

C11_Witness ==
  /\ Done
  /\ Succeeded
  /\ Ran("html")
  /\ extractFromJsonLd(response) # Null
  /\ Truthy(extractFromJsonLd(response).ingredients)
  /\ outcome.recipe.ingredients = <<>>

(***************************************************************************)
(* C12: for a page whose ld+json block is a Recipe with a usable name,     *)
(* importFromUrl returns the normalized structured candidate whichever of  *)
(* the other fields are missing: the heuristic extractor does not run and  *)
(* cookingTime, prepTime or servings is null when its source is missing.   *)
(***************************************************************************)
C12_PartialStructuredSucceeds ==
  (Done /\ response # Null /\ SingleRecipe(response) /\ WellTyped(TheRecipe(response))) =>
    /\ Succeeded
    /\ ~Ran("html")
    /\ outcome.recipe = Cleaned([sourceUrl |-> url] @@ JsonLdCandidate(TheRecipe(response)))
    /\ \A f \in NumericFields :
         TheRecipe(response)[SourceOf(f)] = Undefined => outcome.recipe[f] = Null

C12_Witness ==
  /\ Done
  /\ Succeeded
  /\ response # Null
  /\ SingleRecipe(response)
  /\ \A f \in OptionalFields : TheRecipe(response)[f] = Undefined
  /\ response.dom = RichDom
  /\ outcome.recipe.servings = Null

(***************************************************************************)
(* C13: extractFromJsonLd raises nothing: a block that is not JSON or that *)
(* raises while interpreted is skipped, the candidate is the one of the    *)
(* first block that yields one however many broken blocks precede it, and  *)
(* the pipeline goes on to the next stage with no error.                   *)
(***************************************************************************)
C13_BrokenBlocksSkipped ==
  (Ran("jsonLd") /\ ~Ran("html") /\ ~Ran("clean")) =>
    /\ pc \in {"html", "clean"}
    /\ error = NoError
    /\ recipe = IF FirstGood(response.scripts) = 0 THEN Null
                ELSE ScanBlock(BlockRecipes(response.scripts[FirstGood(response.scripts)])).recipe

C13_Witness ==
  /\ pc = "clean"
  /\ ~Ran("html")
  /\ Len(response.scripts) = 2
  /\ BrokenBlock(response.scripts[1])
  /\ response.scripts[1].parses
  /\ recipe = JsonLdCandidate(PlainRecipe)

(***************************************************************************)
(* C14: the difficulty of a returned recipe is easy, medium or hard: easy  *)
(* when the source text contains easy or beginner in any letter case,      *)
(* otherwise hard when it contains hard, difficult or expert, medium for   *)
(* any other or absent text and for every heuristic candidate.             *)
(***************************************************************************)
C14_DifficultyEnum ==
  Succeeded =>
    /\ outcome.recipe.difficulty \in {Easy, Medium, Hard}
    /\ Ran("html") => outcome.recipe.difficulty = Medium
    /\ (FromSingleRecipe /\ IsString(TheRecipe(response).difficulty)) =>
         outcome.recipe.difficulty = DifficultyRule(TheRecipe(response).difficulty.v)
    /\ (FromSingleRecipe /\ ~Truthy(TheRecipe(response).difficulty)) =>
         outcome.recipe.difficulty = Medium

C14_Witness ==
  /\ FromSingleRecipe
  /\ IsString(TheRecipe(response).difficulty)
  /\ Includes(TheRecipe(response).difficulty.v, <<"E", "A", "S", "Y">>)
  /\ Includes(TheRecipe(response).difficulty.v, Hard)
  /\ outcome.recipe.difficulty = Easy

(***************************************************************************)
(* C15: in a returned recipe cookingTime, prepTime and servings are each   *)
(* null or a positive integer, never 0; a field whose source is missing or *)
(* has no digit is null.                                                   *)
(***************************************************************************)
C15_NumericFieldsAbsentOrPositive ==
  Succeeded =>
    \A f \in NumericFields :
      /\ \/ outcome.recipe[f] = Null
         \/ outcome.recipe[f].t = "number" /\ outcome.recipe[f].n \in Nat \ {0}
      /\ (FromSingleRecipe
            /\ \/ ~Truthy(TheRecipe(response)[SourceOf(f)])
               \/ /\ IsString(TheRecipe(response)[SourceOf(f)])
                  /\ FirstDigit(TheRecipe(response)[SourceOf(f)].v) = 0) =>
           outcome.recipe[f] = Null
      /\ (Ran("html") /\ FirstDigit(getTextContent(response.dom, service.selectors[f])) = 0) =>
           outcome.recipe[f] = Null

C15_Witness ==
  /\ FromSingleRecipe
  /\ TheRecipe(response).cookTime = Str(<<"P", "T">>)
  /\ outcome.recipe.cookingTime = Null
  /\ outcome.recipe.servings = Num(4)

(***************************************************************************)
(* C16: every returned recipe has sourceUrl equal to the url argument as   *)
(* passed, whichever extractor produced the candidate.                     *)
(***************************************************************************)
C16_SourceUrlIsArgument ==
  Succeeded => outcome.recipe.sourceUrl = url

C16_Witness ==
  /\ Succeeded
  /\ Ran("html")
  /\ url.scheme = "HTTP"
  /\ outcome.recipe.sourceUrl.scheme = "HTTP"

(***************************************************************************)
(* importFromUrl run alone, as a function of its inputs                    *)
(***************************************************************************)
\* the candidate the normalizer receives for a fetched page
AloneCandidate(page) ==
  IF NoStructuredTitle(page) THEN extractFromHtml(page) ELSE extractFromJsonLd(page)

\* the error raised inside the try of importFromUrl, NoError when it returns
AloneError(u, r) ==
  IF ~u.parses THEN InvalidUrlError
  ELSE IF Protocol(u) \notin {"http:", "https:"} THEN ProtocolError
  ELSE IF AxiosGet(r) # NoError THEN AxiosGet(r)
  ELSE IF CleanedThrows(AloneCandidate(r.page)) THEN TypeErrorReplace
  ELSE IF TitleRejected(Cleaned([sourceUrl |-> u] @@ AloneCandidate(r.page))) THEN TitleError
  ELSE NoError

AloneOutcome(u, r) ==
  IF AloneError(u, r) # NoError THEN Threw(Thrown(AloneError(u, r)))
  ELSE Returned(Cleaned([sourceUrl |-> u] @@ AloneCandidate(r.page)))

\* a single call ends as AloneOutcome says
AloneAgrees == Done => outcome = AloneOutcome(url, remote)

BothDone == Done /\ peer.pc = "done"

C18_ConcurrentCallsIsolated ==
  /\ service = Constructed
  /\ Done => outcome = AloneOutcome(url, remote)
  /\ peer.pc = "done" => peer.outcome = AloneOutcome(peer.url, peer.remote)

\* the second call ran from start to end while the first was suspended at
\* its request, and both were cut off by the timeout of the instance
C18_Witness ==
  /\ BothDone
  /\ self = 1
  /\ Ran("get")
  /\ TimesOut(remote)
  /\ Failed
  /\ TimesOut(peer.remote)
  /\ url # peer.url
  /\ service = Constructed

(***************************************************************************)
(* Vocabulary of the route properties                                      *)
(***************************************************************************)
Sent == route.pc = "sent"

(***************************************************************************)
(* C19: when importFromUrl fails, POST /recipes/import answers 400 with    *)
(* details equal to the message importFromUrl threw, createRecipe is not   *)
(* called for the request and the recipes table is as it was.              *)
(***************************************************************************)
C19_FailedImportAnswers400 ==
  Failed =>
    /\ route.calls = <<>>
    /\ db = route.before
    /\ Sent =>
         /\ route.response.status = 400
         /\ route.response.error = "Recipe import failed"
         /\ route.response.details = outcome.message
         /\ route.response.details = Thrown(error)

C19_Witness ==
  /\ Sent
  /\ Failed
  /\ route.response.status = 400
  /\ route.response.details = NotFoundMessage
  /\ db = <<EarlierRow>>

(***************************************************************************)
(* C20: when importFromUrl succeeds, createRecipe is called exactly once,  *)
(* after the import has completed, with the imported fields, the id of the *)
(* authenticated requester as userId and isPublic false; a 201 response    *)
(* carries the id createRecipe returned.                                   *)
(***************************************************************************)
C20_SuccessfulImportStoredOnce ==
  /\ route.calls # <<>> => (Done /\ Succeeded)
  /\ (Sent /\ Succeeded) =>
       /\ Len(route.calls) = 1
       /\ \A f \in DOMAIN outcome.recipe : route.calls[1][f] = outcome.recipe[f]
       /\ route.calls[1].userId = route.token.userId
       /\ route.token.kind = "signed" /\ route.token.userId \in Users
       /\ route.calls[1].isPublic = FALSE
       /\ Len(db) <= Len(route.before) + 1
       /\ route.response.status \in {201, 400}
  /\ route.response.status = 201 =>
       /\ Succeeded
       /\ route.response.id = route.insertId
       /\ route.response.id = Len(route.before) + 1
       /\ db = Append(route.before, Row(route.calls[1]))
       /\ db[route.response.id].user_id = route.token.userId
       /\ db[route.response.id].is_public = 0

C20_Witness ==
  /\ Sent
  /\ Succeeded
  /\ route.response.status = 201
  /\ route.response.id = 2
  /\ route.calls[1].userId = 7
  /\ db[2].title = outcome.recipe.title

(***************************************************************************)
(* Vocabulary of the parseTime properties                                  *)
(***************************************************************************)
\* the structured candidate of the page's single Recipe object is at the
\* normalizer, as extractFromJsonLd returned it
StructuredCandidateReady == pc = "clean" /\ ~Ran("html") /\ SingleRecipe(response)

\* positions of the tokens PT<h>H<m>M of s that carry at least one component
IsoTokens(s) ==
  {k \in 1..(Len(s) - 1) :
     /\ s[k] = "P" /\ s[k + 1] = "T"
     /\ \/ IsoGroup(Drop(s, k + 1), "H") # <<>>
        \/ IsoGroup(Drop(s, k + 1), "M") # <<>>}

\* 60 * h + m of the token at position k
IsoTokenMinutes(s, k) ==
  ParseDigits(IsoGroup(Drop(s, k + 1), "H")) * 60
    + ParseDigits(IsoGroup(AfterIsoGroup(Drop(s, k + 1), "H"), "M"))

\* the number+unit pairs of s, left to right
RECURSIVE UnitPairs(_)
UnitPairs(s) ==
  IF s = <<>> THEN <<>>
  ELSE IF IsDigit(Head(s)) /\ UnitAt(Drop(Drop(s, DigitRun(s)), WsRun(Drop(s, DigitRun(s))))) # <<>>
       THEN LET unit == UnitAt(Drop(Drop(s, DigitRun(s)), WsRun(Drop(s, DigitRun(s)))))
                value == ParseDigits(SubSeq(s, 1, DigitRun(s)))
            IN <<IF unit[1] = "h" THEN 60 * value ELSE value>> \o
               UnitPairs(Drop(s, DigitRun(s) + WsRun(Drop(s, DigitRun(s))) + Len(unit)))
       ELSE UnitPairs(Tail(s))

RECURSIVE SumOf(_)
SumOf(ns) == IF ns = <<>> THEN 0 ELSE Head(ns) + SumOf(Tail(ns))

\* the minutes the three rules give for a text with a digit: the ISO-style
\* token, else the sum of the pairs, else the first bare integer
RuleMinutes(s) ==
  IF IsoTokens(s) # {}
  THEN IsoTokenMinutes(s, CHOOSE k \in IsoTokens(s) : \A j \in IsoTokens(s) : k <= j)
  ELSE IF UnitPairs(s) # <<>> THEN SumOf(UnitPairs(s))
  ELSE ParseDigits(FirstNumber(s))

(***************************************************************************)
(* C21: for a source text with a digit, parseTime gives 60*h + m for an    *)
(* ISO-style token PT<h>H<m>M, the sum over all number+unit pairs for free *)
(* text (hour units count 60), and the first bare integer only when        *)
(* neither is present.                                                     *)
(* Violated: the ISO pattern matches any text containing the letters PT    *)
(* and gives 0 before the other rules are tried.                           *)
(***************************************************************************)
C21_ParseTimeSumsComponents ==
  (StructuredCandidateReady
     /\ IsString(TheRecipe(response).cookTime)
     /\ FirstDigit(TheRecipe(response).cookTime.v) # 0) =>
    recipe.cookingTime = Num(RuleMinutes(TheRecipe(response).cookTime.v))

(***************************************************************************)
(* C22: parseTime gives null, not 0, for a source that is missing, empty   *)
(* or has no digit, the letters PT without a number included.              *)
(* Violated: a text containing PT and no number gives 0.                   *)
(***************************************************************************)
C22_ParseTimeNoDigitIsNull ==
  (StructuredCandidateReady
     /\ \/ ~Truthy(TheRecipe(response).cookTime)
        \/ /\ IsString(TheRecipe(response).cookTime)
           /\ FirstDigit(TheRecipe(response).cookTime.v) = 0) =>
    recipe.cookingTime = Null

(***************************************************************************)
(* Vocabulary of the document-order property                               *)
(***************************************************************************)
\* extractFromJsonLd has returned and no later stage has run
StructuredJustRan == Ran("jsonLd") /\ ~Ran("html") /\ ~Ran("clean")

\* a JSON value that is an object with @type 'Recipe' or an array including it
RecipeTyped(x) == x.t = "object" /\ x.type \in {"Recipe", "[...,Recipe]"}

\* positions of the Recipe-typed objects of a block that parses
RecipesOf(b) ==
  IF ~b.parses THEN {}
  ELSE {i \in 1..Len(BlockRecipes(b)) : RecipeTyped(BlockRecipes(b)[i])}

First(S) == CHOOSE i \in S : \A j \in S : i <= j

\* blocks that parse and contain a Recipe-typed object
RecipeBlocks(scripts) == {i \in 1..Len(scripts) : RecipesOf(scripts[i]) # {}}

\* the first Recipe-typed object of block b
FirstRecipeOf(b) == BlockRecipes(b)[First(RecipesOf(b))]

\* the block is interpreted up to its first Recipe-typed object and that
\* object is mapped without an exception
Interpreted(b) ==
  /\ RecipesOf(b) # {}
  /\ \A i \in 1..(First(RecipesOf(b)) - 1) : BlockRecipes(b)[i].t \notin {"null", "undefined"}
  /\ ~JsonLdCandidateThrows(FirstRecipeOf(b))

InterpretedBlocks(scripts) == {i \in 1..Len(scripts) : Interpreted(scripts[i])}

(***************************************************************************)
(* C23: extractFromJsonLd returns the candidate of the first Recipe-typed  *)
(* object in document order: when a block parses and contains a            *)
(* Recipe-typed object, the candidate is the one of the first such object  *)
(* of the first such block, and null is returned only when no block        *)
(* contains one.                                                           *)
(* Violated: a block whose interpretation raises is passed over, Recipe    *)
(* object and all.                                                         *)
(***************************************************************************)
C23_FirstRecipeInDocumentOrder ==
  StructuredJustRan =>
    IF RecipeBlocks(response.scripts) = {} THEN recipe = Null
    ELSE LET data == FirstRecipeOf(response.scripts[First(RecipeBlocks(response.scripts))])
         IN /\ recipe # Null
            /\ ~JsonLdCandidateThrows(data)
            /\ recipe = JsonLdCandidate(data)

(***************************************************************************)
(* C23 as amended: the candidate is the one of the first Recipe-typed      *)
(* object of the first block that is interpreted without an exception; a   *)
(* block that is not JSON, that has a null element before its first Recipe *)
(* object, or whose first Recipe object cannot be mapped is passed over,   *)
(* and null is returned only when no block is left.                        *)
(***************************************************************************)
C23_FirstInterpretedRecipe ==
  StructuredJustRan =>
    IF InterpretedBlocks(response.scripts) = {} THEN recipe = Null
    ELSE recipe =
           JsonLdCandidate(FirstRecipeOf(response.scripts[First(InterpretedBlocks(response.scripts))]))

C23_Witness ==
  /\ StructuredJustRan
  /\ Len(response.scripts) = 2
  /\ RecipesOf(response.scripts[1]) # {}
  /\ ~Interpreted(response.scripts[1])
  /\ Cardinality(RecipesOf(response.scripts[2])) = 2
  /\ recipe # Null
  /\ recipe.title = Str(<<"b", "a">>)

(***************************************************************************)
(* Vocabulary of the heuristic properties                                  *)
(***************************************************************************)
\* extractFromHtml has returned and the normalizer has not run
HeuristicJustRan == pc = "clean" /\ Ran("html")

\* the trimmed text of the first element of one of the kinds, '' when none
TextOfFirst(dom, kinds) ==
  IF Select(dom, kinds) = <<>> THEN <<>> ELSE Trim(Select(dom, kinds)[1].text)

\* the content of the first og:title element, '' when none or not a string
OgTitle(dom) ==
  IF Select(dom, {"meta[property=og:title]"}) = <<>> THEN <<>>
  ELSE JoinText(Select(dom, {"meta[property=og:title]"})[1].content)

\* the sources of the title from the highest priority to the lowest
TitleSources(dom) ==
  <<TextOfFirst(dom, {"h1.recipe-title", ".recipe-title"}),
    TextOfFirst(dom, {"h1.entry-title"}),
    TextOfFirst(dom, {".recipe-header h1", "h1"}),
    Trim(StripSiteSuffix(ConcatTexts(Select(dom, {"title"})))),
    OgTitle(dom)>>

\* the first non-empty source, '' when all are empty
PriorityTitle(dom) ==
  LET src == TitleSources(dom)
      ks == {k \in 1..Len(src) : src[k] # <<>>}
  IN IF ks = {} THEN <<>> ELSE src[First(ks)]

(***************************************************************************)
(* C24: the heuristic title is the first non-empty source in the order     *)
(* recipe-title markup, entry-title markup, first heading, page <title>    *)
(* with the site suffix stripped, og:title metadata, wherever the elements *)
(* stand in the page.                                                      *)
(* Violated: the first element in document order that matches any title    *)
(* selector is read, and <title> is used when its text is empty.           *)
(***************************************************************************)
C24_TitlePriorityOrder ==
  HeuristicJustRan => recipe.title = Str(PriorityTitle(response.dom))

\* the patterns of this.selectors.ingredients and this.selectors.instructions
\* in the order of their lists
IngredientPatterns ==
  <<".recipe-ingredient", ".ingredients li", ".recipe-ingredients li",
    "[itemprop=recipeIngredient]", ".ingredient">>

InstructionPatterns ==
  <<".recipe-instruction", ".instructions li", ".recipe-instructions li",
    ".recipe-method li", "[itemprop=recipeInstructions]", ".instruction">>

\* the trimmed non-empty texts of els, each kept at its first occurrence
RECURSIVE DistinctTexts(_)
DistinctTexts(els) ==
  IF els = <<>> THEN <<>>
  ELSE LET before == DistinctTexts(SubSeq(els, 1, Len(els) - 1))
           text == Trim(els[Len(els)].text)
       IN IF text = <<>> \/ \E i \in 1..Len(before) : before[i] = text THEN before
          ELSE Append(before, text)

\* the texts of the elements matching the first pattern that matches anything
FirstPatternTexts(dom, patterns) ==
  LET ks == {k \in 1..Len(patterns) : Select(dom, {patterns[k]}) # <<>>}
  IN IF ks = {} THEN <<>> ELSE DistinctTexts(Select(dom, {patterns[First(ks)]}))

(***************************************************************************)
(* C25: the heuristic ingredients and instructions are the texts of all    *)
(* elements matching the first pattern of the list that matches anything,  *)
(* identical texts once, in document order; elements that match only a     *)
(* later pattern contribute nothing.                                       *)
(* Violated: the elements matching any pattern of the list are collected.  *)
(***************************************************************************)
C25_FirstMatchingPatternOnly ==
  HeuristicJustRan =>
    /\ recipe.ingredients = Str(Join(FirstPatternTexts(response.dom, IngredientPatterns), <<"\n">>))
    /\ recipe.instructions = Str(Join(FirstPatternTexts(response.dom, InstructionPatterns), <<"\n">>))

(***************************************************************************)
(* C26: when the heuristic extractor finds instruction elements, the k-th  *)
(* line of its instructions text begins with the step number k, as for     *)
(* structured instructions.                                                *)
(* Violated: extractFromHtml joins the texts without numbering them.       *)
(***************************************************************************)
C26_HeuristicStepsNumbered ==
  (HeuristicJustRan /\ extractMultipleTexts(response.dom, instructionsSelector) # <<>>) =>
    LET lines == Lines(recipe.instructions.v)
    IN \A k \in 1..Len(lines) : HasStepPrefix(lines[k], k)

(***************************************************************************)
(* C27: when importFromUrl fails with the title extraction failure, both   *)
(* extractors have run on the fetched page, the structured one first and   *)
(* the heuristic one second.                                               *)
(* Violated: a structured candidate with a one-character title is rejected *)
(* without the heuristic extractor being tried.                            *)
(***************************************************************************)
C27_ExtractionFailedAfterBoth ==
  (Failed /\ outcome.message = ExtractionFailedMessage) =>
    /\ Ran("jsonLd")
    /\ Ran("html")
    /\ FirstRun("jsonLd") < FirstRun("html")

(***************************************************************************)
(* C28: the imageUrl of every returned recipe is null or one URL string,   *)
(* whatever the shape of the JSON-LD image field and for every heuristic   *)
(* match.                                                                  *)
(* Violated: for an array the first element is returned as it is, object   *)
(* or not.                                                                 *)
(***************************************************************************)
C28_ImageUrlStringOrNull ==
  Succeeded => (outcome.recipe.imageUrl = Null \/ IsString(outcome.recipe.imageUrl))

\* the non-empty steps of a recipeInstructions array
StepsOf(x) == SelectSeq(x.v, LAMBDA inst : StepText(inst) # <<>>)

(***************************************************************************)
(* C29: when a recipeInstructions array has empty entries, they are        *)
(* dropped and the K non-empty steps are numbered 1..K in the instructions *)
(* text, without gaps.                                                     *)
(* Violated: a step keeps the number of its position in the array.         *)
(***************************************************************************)
C29_StepsNumberedWithoutGaps ==
  (StructuredCandidateReady
     /\ IsArray(TheRecipe(response).recipeInstructions)
     /\ ~extractInstructionsThrows(TheRecipe(response).recipeInstructions)
     /\ Len(StepsOf(TheRecipe(response).recipeInstructions)) >= 1
     /\ Len(StepsOf(TheRecipe(response).recipeInstructions))
          < Len(TheRecipe(response).recipeInstructions.v)) =>
    LET steps == StepsOf(TheRecipe(response).recipeInstructions)
        lines == Lines(recipe.instructions.v)
    IN /\ Len(lines) = Len(steps)
       /\ \A k \in 1..Len(steps) :
            lines[k] = ToDigits(k) \o <<".", " ">> \o StepText(steps[k])

\* the request carries a token that verifies and names a row of users
Authenticated == route.token.kind = "signed" /\ route.token.userId \in Users

\* importFromUrl has been called for the request
ImportCalled == pc # "idle"

(***************************************************************************)
(* C30: POST /recipes/import authenticates, then validates the url, then   *)
(* imports, then stores: a request without a valid token for an existing   *)
(* user, or with a url that fails validation, never calls importFromUrl,   *)
(* never issues a GET and never creates a recipe.                          *)
(***************************************************************************)
C30_RouteStepsOrdered ==
  /\ (~Authenticated \/ ~isURL(url)) =>
       /\ ~ImportCalled
       /\ gets = 0
       /\ trace = <<>>
       /\ route.calls = <<>>
       /\ db = route.before
       /\ route.response.status \in {0, 400, 401, 403}
  /\ route.pc \in {"validation", "handler", "await"} => route.user = [id |-> route.token.userId]
  /\ ImportCalled => (Authenticated /\ isURL(url) /\ route.pc \in {"await", "sent"})
  /\ route.calls # <<>> => (ImportCalled /\ Ran("get") /\ pc = "done" /\ route.pc = "sent")
  /\ (Sent /\ ~Authenticated) => route.response.status \in {401, 403}
  /\ (Sent /\ Authenticated /\ ~isURL(url)) =>
       (route.response.status = 400 /\ route.response.error = "Validation failed")

C30_Witness ==
  /\ Sent
  /\ Authenticated
  /\ ~isURL(url)
  /\ url.parses
  /\ route.response.error = "Validation failed"
  /\ ~ImportCalled
  /\ db = <<EarlierRow>>

====
